---- MODULE Spec2Model ----
(***************************************************************************)
(* A model of the paraglide statute parser                                 *)
(* (src/src/paraglide/parsers/retsinformation.py) and of the document      *)
(* model it builds (src/src/paraglide/data/models.py).                     *)
(*                                                                         *)
(* Text is a sequence of one-character strings, so that the regular        *)
(* expression, int(), strip(), split() and replace() are computed and not  *)
(* assumed.  An optional value (Python's None) is a sequence of length     *)
(* zero or one, except for an optional string, where None is the           *)
(* one-element sequence <<"None">> that no text can equal.                 *)
(***************************************************************************)
EXTENDS Integers, Sequences, FiniteSets, TLC

\* Bounds of the model.
MaxElems == 5
MaxPad == 7
MaxTexts == 2
MaxTextLen == 2

\* The regular expression of _extract_id_and_date takes \d{1,10}.
MaxIdDigits == 10

None == <<"None">>

(***************************************************************************)
(* Text helpers: str.strip, str.split, str.join, str.replace, int.         *)
(***************************************************************************)
Digit == {"0", "1", "2", "3", "4", "5", "6", "7", "8", "9"}

Whitespace == {" ", "\t", "\n"}

DigitVal(c) ==
    CASE c = "0" -> 0 [] c = "1" -> 1 [] c = "2" -> 2 [] c = "3" -> 3
      [] c = "4" -> 4 [] c = "5" -> 5 [] c = "6" -> 6 [] c = "7" -> 7
      [] c = "8" -> 8 [] c = "9" -> 9

RECURSIVE LStrip(_)
LStrip(s) ==
    IF s # <<>> /\ Head(s) \in Whitespace THEN LStrip(Tail(s)) ELSE s

RECURSIVE RStrip(_)
RStrip(s) ==
    IF s # <<>> /\ s[Len(s)] \in Whitespace
    THEN RStrip(SubSeq(s, 1, Len(s) - 1))
    ELSE s

Strip(s) == RStrip(LStrip(s))

\* str.split() with no argument: the maximal runs of non-whitespace.
RECURSIVE Split(_, _, _)
Split(s, word, acc) ==
    IF s = <<>>
    THEN IF word = <<>> THEN acc ELSE Append(acc, word)
    ELSE IF Head(s) \in Whitespace
         THEN Split(Tail(s), <<>>, IF word = <<>> THEN acc ELSE Append(acc, word))
         ELSE Split(Tail(s), Append(word, Head(s)), acc)

\* sep.join(words)
RECURSIVE Join(_, _)
Join(sep, words) ==
    IF words = <<>> THEN <<>>
    ELSE IF Len(words) = 1 THEN words[1]
    ELSE words[1] \o sep \o Join(sep, Tail(words))

StartsWith(s, prefix) ==
    Len(s) >= Len(prefix) /\ SubSeq(s, 1, Len(prefix)) = prefix

\* s.replace(old, ""): every non-overlapping occurrence of old, left to right.
RECURSIVE Remove(_, _)
Remove(s, old) ==
    IF s = <<>> THEN <<>>
    ELSE IF StartsWith(s, old)
         THEN Remove(SubSeq(s, Len(old) + 1, Len(s)), old)
         ELSE <<Head(s)>> \o Remove(Tail(s), old)

IsDigits(s) == s # <<>> /\ \A k \in 1..Len(s) : s[k] \in Digit

\* int(s) of a string of decimal digits (leading zeros allowed).
RECURSIVE IntOfDigits(_)
IntOfDigits(s) ==
    IF s = <<>> THEN 0
    ELSE 10 * IntOfDigits(SubSeq(s, 1, Len(s) - 1)) + DigitVal(s[Len(s)])

(***************************************************************************)
(* Outcomes of a call: a value, or a raised exception of a class with a    *)
(* message.                                                                *)
(***************************************************************************)
Ok(v) == [err |-> <<>>, val |-> <<v>>]

Raise(cls, msg) == [err |-> <<[cls |-> cls, msg |-> msg]>>, val |-> <<>>]

Failed(r) == r.err # <<>>

\* class ParserError(Exception)
ParserError(msg) == Raise("ParserError", msg)

\* The built-in ValueError (int(), datetime.strptime).
ValueError(msg) == Raise("ValueError", msg)

\* pydantic's ValidationError (a field of the wrong type, a failed validator).
ValidationError(msg) == Raise("ValidationError", msg)

(***************************************************************************)
(* The element tree.  A <p> element of div.document-content has a class,   *)
(* an id attribute (None when absent) and children; a child is a text node *)
(* (tag "#text") or a <span> with a class, an id and its text.             *)
(***************************************************************************)
TextNode(t) == [tag |-> "#text", cls |-> "", id |-> None, text |-> t]

Span(cls, id, t) == [tag |-> "span", cls |-> cls, id |-> id, text |-> t]

P(cls, id, children) == [cls |-> cls, id |-> id, children |-> children]

\* get_attr(tag, "id")
get_attr_id(tag) ==
    IF tag.id # None THEN Ok(tag.id)
    ELSE ParserError("Tag does not have attribute id")

\* Tag.get_text() of a span: its text, unstripped.
span_get_text(span) == span.text

\* ExtractChildTags that extracts the first child tag only.
ExtractChildTags_FirstOnly(children) ==
    LET tags == {n \in 1..Len(children) : children[n].tag # "#text"}
    IN  IF tags = {} THEN children
        ELSE LET first == CHOOSE n \in tags : \A m \in tags : n <= m
             IN  SubSeq(children, 1, first - 1)
                 \o SubSeq(children, first + 1, Len(children))

\* for child in element.find_all(True): child.extract()
\* What is left of a <p> element: its own text nodes.
ExtractChildTags(children) == SelectSeq(children, LAMBDA c : c.tag = "#text")

\* Tag.get_text(strip=True): every string stripped, the empty ones dropped,
\* the rest joined with the empty separator.
RECURSIVE GetTextStripped(_)
GetTextStripped(children) ==
    IF children = <<>> THEN <<>>
    ELSE Strip(Head(children).text) \o GetTextStripped(Tail(children))

\* get_cleaned_text(element) of a <p> element, given its children.
get_cleaned_text(children) ==
    Join(<<" ">>, Split(GetTextStripped(ExtractChildTags(children)), <<>>, <<>>))

\* get_cleaned_text(span) of a span that holds text only.
get_cleaned_text_span(span) ==
    Join(<<" ">>, Split(Strip(span.text), <<>>, <<>>))

\* p_elem.find("span", {"class": cls}): the first such span, or <<>>.
FindSpanByClass(children, cls) ==
    LET hits == SelectSeq(children, LAMBDA c : c.tag = "span" /\ c.cls = cls)
    IN  IF hits = <<>> THEN <<>> ELSE <<hits[1]>>

\* p_elem.find("span", id=lambda x: x and x.startswith("Kap"))
FindKapSpan(children) ==
    LET hits == SelectSeq(children,
                    LAMBDA c : c.tag = "span" /\ c.id # None
                               /\ StartsWith(c.id, <<"K", "a", "p">>))
    IN  IF hits = <<>> THEN <<>> ELSE <<hits[1]>>

\* next_p_elem.find("span"): the first span of any class.
FindAnySpan(children) ==
    LET hits == SelectSeq(children, LAMBDA c : c.tag = "span")
    IN  IF hits = <<>> THEN <<>> ELSE <<hits[1]>>

(***************************************************************************)
(* _extract_id_and_date: the <h5> heading, the regular expression          *)
(*   LBK\snr\s(\d{1,10})\saf\s(\d{2})\/(\d{2})\/(\d{4})                    *)
(* searched in its text, int() of group 1 and strptime of groups 2 to 4.   *)
(***************************************************************************)
LitAt(s, p, lit) ==
    p + Len(lit) - 1 <= Len(s) /\ SubSeq(s, p, p + Len(lit) - 1) = lit

WsAt(s, p) == p <= Len(s) /\ s[p] \in Whitespace

DigitsAt(s, p, n) ==
    p + n - 1 <= Len(s) /\ \A k \in p..(p + n - 1) : s[k] \in Digit

\* \saf\s(\d{2})\/(\d{2})\/(\d{4}) at position q
TailMatchesAt(s, q) ==
    /\ WsAt(s, q)
    /\ LitAt(s, q + 1, <<"a", "f">>)
    /\ WsAt(s, q + 3)
    /\ DigitsAt(s, q + 4, 2)
    /\ LitAt(s, q + 6, <<"/">>)
    /\ DigitsAt(s, q + 7, 2)
    /\ LitAt(s, q + 9, <<"/">>)
    /\ DigitsAt(s, q + 10, 4)

\* The lengths n of \d{1,10} at position d after which the rest matches.
NumberLengthsAt(s, d) ==
    {n \in 1..MaxIdDigits : DigitsAt(s, d, n) /\ TailMatchesAt(s, d + n)}

\* LBK\snr\s at position p, then the number.
MatchesAt(s, p) ==
    /\ LitAt(s, p, <<"L", "B", "K">>)
    /\ WsAt(s, p + 3)
    /\ LitAt(s, p + 4, <<"n", "r">>)
    /\ WsAt(s, p + 6)
    /\ NumberLengthsAt(s, p + 7) # {}

\* re.search: the leftmost match, \d{1,10} greedy; its four groups, or <<>>.
re_search(s) ==
    LET starts == {p \in 1..Len(s) : MatchesAt(s, p)}
    IN  IF starts = {} THEN <<>>
        ELSE LET p == CHOOSE x \in starts : \A y \in starts : x <= y
                 d == p + 7
                 n == CHOOSE x \in NumberLengthsAt(s, d) :
                          \A y \in NumberLengthsAt(s, d) : y <= x
                 q == d + n
             IN  <<[g1 |-> SubSeq(s, d, q - 1),
                    g2 |-> SubSeq(s, q + 4, q + 5),
                    g3 |-> SubSeq(s, q + 7, q + 8),
                    g4 |-> SubSeq(s, q + 10, q + 13)]>>

IsLeapYear(y) == (y % 4 = 0 /\ y % 100 # 0) \/ y % 400 = 0

DaysInMonth(y, m) ==
    IF m = 2 THEN (IF IsLeapYear(y) THEN 29 ELSE 28)
    ELSE IF m \in {4, 6, 9, 11} THEN 30 ELSE 31

\* datetime.strptime(dd + "/" + mm + "/" + yyyy, "%d/%m/%Y")
strptime(dd, mm, yyyy) ==
    LET d == IntOfDigits(dd)
        m == IntOfDigits(mm)
        y == IntOfDigits(yyyy)
    IN  IF m \in 1..12 /\ y >= 1 /\ d \in 1..DaysInMonth(y, m)
        THEN Ok([year |-> y, month |-> m, day |-> d])
        ELSE ValueError("time data does not match format / out of range")

\* _extract_id_and_date reading the date month first ("%m/%d/%Y").
_extract_id_and_date_MonthFirst(h5) ==
    IF h5 = None
    THEN ParserError("Could not find <h5> element")
    ELSE LET match == re_search(h5)
         IN  IF match # <<>>
             THEN LET number == IntOfDigits(match[1].g1)
                      date == strptime(match[1].g3, match[1].g2, match[1].g4)
                  IN  IF Failed(date) THEN date
                      ELSE Ok([number |-> number, date |-> date.val[1]])
             ELSE ParserError("Could not extract ID and date")

\* _extract_id_and_date without the test for a missing heading: an absent
\* heading is searched as the empty text.
_extract_id_and_date_NoneAsEmpty(h5) ==
    LET match == IF h5 = None THEN <<>> ELSE re_search(h5)
    IN  IF match # <<>>
        THEN LET number == IntOfDigits(match[1].g1)
                 date == strptime(match[1].g2, match[1].g3, match[1].g4)
             IN  IF Failed(date) THEN date
                 ELSE Ok([number |-> number, date |-> date.val[1]])
        ELSE ParserError("Could not extract ID and date")

_extract_id_and_date(h5) ==
    IF h5 = None
    THEN ParserError("Could not find <h5> element")
    ELSE LET match == re_search(h5)
         IN  IF match # <<>>
             THEN LET number == IntOfDigits(match[1].g1)
                      date == strptime(match[1].g2, match[1].g3, match[1].g4)
                  IN  IF Failed(date) THEN date
                      ELSE Ok([number |-> number, date |-> date.val[1]])
             ELSE ParserError("Could not extract ID and date")

(***************************************************************************)
(* The document model (paraglide.data.models): a constructor returns the   *)
(* validated record or raises pydantic's ValidationError.                  *)
(***************************************************************************)
TextType == {"plain", "list"}

\* checks_when_type_is_list that checks nothing.
checks_when_type_is_list_Accepts(self) == Ok(self)

\* StructuredText.checks_when_type_is_list
checks_when_type_is_list(self) ==
    IF self.type = "list" /\ (self.guid = None \/ self.reference = None)
    THEN ValidationError("guid and reference must be filled if type is list")
    ELSE Ok(self)

\* StructuredText(type=, text=, guid=, reference=): the field types, then the
\* model validator.
StructuredText(type, text, guid, reference) ==
    IF type \notin TextType \/ text = None
    THEN ValidationError("StructuredText: field type")
    ELSE checks_when_type_is_list(
             [type |-> type, text |-> text, guid |-> guid, reference |-> reference])

\* StatuteSection(guid=, reference=, texts=)
StatuteSection(guid, reference, texts) ==
    IF guid = None \/ reference = None
    THEN ValidationError("StatuteSection: string required")
    ELSE Ok([guid |-> guid, reference |-> reference, texts |-> texts])

\* StatuteParagraph(guid=, id=, reference=, texts=, sections=)
StatuteParagraph(guid, id, reference, texts, sections) ==
    IF guid = None \/ id = None \/ reference = None
    THEN ValidationError("StatuteParagraph: string required")
    ELSE Ok([guid |-> guid, id |-> id, reference |-> reference,
             texts |-> texts, sections |-> sections])

\* StatuteChapter(number=, title=, guid=, paragraphs=)
StatuteChapter(number, title, guid, paragraphs) ==
    IF guid = None \/ title = None
    THEN ValidationError("StatuteChapter: string required")
    ELSE Ok([number |-> number, title |-> title, guid |-> guid,
             paragraphs |-> paragraphs])

\* Statute(number=, date=, title=, chapters=)
Statute(number, date, title, chapters) ==
    [number |-> number, date |-> date, title |-> title, chapters |-> chapters]

(***************************************************************************)
(* The per-node parsing rules.  Each returns the node (or the exception)   *)
(* and the children the <p> element is left with: get_cleaned_text         *)
(* extracts the child tags from the element itself.                        *)
(***************************************************************************)
Out(r, children) == [err |-> r.err, val |-> r.val, children |-> children]

\* p_elem.find_next("p", class_="KapitelOverskrift2"): the first such element
\* after position k in document order, or <<>>.
find_next_KapitelOverskrift2(body, k) ==
    LET later == {j \in (k + 1)..Len(body) : body[j].cls = "KapitelOverskrift2"}
    IN  IF later = {} THEN <<>>
        ELSE <<body[CHOOSE j \in later : \A x \in later : j <= x]>>

\* int(s): the model's identifiers hold no sign, blank or underscore.
int(s) == IF IsDigits(s) THEN Ok(IntOfDigits(s))
          ELSE ValueError("invalid literal for int() with base 10")

\* _parse_chapter giving a chapter the empty title when no chapter-title
\* element follows.
_parse_chapter_DefaultsTitle(body, k) ==
    LET p_elem == body[k]
        span_chapter_elem == FindKapSpan(p_elem.children)
        next_p_elem == find_next_KapitelOverskrift2(body, k)
    IN  IF span_chapter_elem = <<>>
        THEN ParserError("Could not find <span> element with id starting with 'Kap'")
        ELSE
        LET number == int(Remove(span_chapter_elem[1].id, <<"K", "a", "p">>))
        IN  IF Failed(number) THEN number
            ELSE IF next_p_elem = <<>> \/ FindAnySpan(next_p_elem[1].children) = <<>>
            THEN StatuteChapter(number.val[1], <<>>, p_elem.id, <<>>)
            ELSE StatuteChapter(number.val[1],
                     get_cleaned_text_span(FindAnySpan(next_p_elem[1].children)[1]),
                     p_elem.id, <<>>)

_parse_chapter(body, k) ==
    LET p_elem == body[k]
        guid == p_elem.id
        span_chapter_elem == FindKapSpan(p_elem.children)
    IN  IF span_chapter_elem = <<>>
        THEN ParserError("Could not find <span> element with id starting with 'Kap'")
        ELSE
        LET id == get_attr_id(span_chapter_elem[1])
        IN  IF Failed(id) THEN id ELSE
        LET number == int(Remove(id.val[1], <<"K", "a", "p">>))
        IN  IF Failed(number) THEN number ELSE
        LET next_p_elem == find_next_KapitelOverskrift2(body, k)
        IN  IF next_p_elem = <<>>
            THEN ParserError("Could not find <p> element with class 'KapitelOverskrift2'")
            ELSE
            LET title_elem == FindAnySpan(next_p_elem[1].children)
            IN  IF title_elem = <<>>
                THEN ParserError("Could not find title for chapter")
                ELSE StatuteChapter(number.val[1],
                                    get_cleaned_text_span(title_elem[1]),
                                    guid, <<>>)

_parse_paragraph(p_elem) ==
    LET guid == p_elem.id
        span_elem == FindSpanByClass(p_elem.children, "ParagrafNr")
    IN  IF span_elem = <<>>
        THEN Out(ParserError("Could not find <span> element with class 'ParagrafNr'"),
                 p_elem.children)
        ELSE
        LET id == get_attr_id(span_elem[1])
        IN  IF Failed(id) THEN Out(id, p_elem.children) ELSE
        LET text == get_cleaned_text(p_elem.children)
            reference == Remove(span_get_text(span_elem[1]), <<".">>)
            plain == StructuredText("plain", text, None, None)
        IN  Out(IF Failed(plain) THEN plain
                ELSE StatuteParagraph(guid, id.val[1], reference,
                                      <<plain.val[1]>>, <<>>),
                ExtractChildTags(p_elem.children))

\* _parse_list_block giving the list item the plain type.
_parse_list_block_Plain(p_elem) ==
    LET span_elem == FindSpanByClass(p_elem.children, "Liste1Nr")
    IN  IF span_elem = <<>>
        THEN Out(ParserError("Could not find <span> element with class 'Liste1Nr'"),
                 p_elem.children)
        ELSE
        LET guid == get_attr_id(span_elem[1])
        IN  IF Failed(guid) THEN Out(guid, p_elem.children) ELSE
        LET reference == span_get_text(span_elem[1])
            text == get_cleaned_text(p_elem.children)
        IN  Out(StructuredText("plain", text, guid.val[1], reference),
                ExtractChildTags(p_elem.children))

_parse_list_block(p_elem) ==
    LET span_elem == FindSpanByClass(p_elem.children, "Liste1Nr")
    IN  IF span_elem = <<>>
        THEN Out(ParserError("Could not find <span> element with class 'Liste1Nr'"),
                 p_elem.children)
        ELSE
        LET guid == get_attr_id(span_elem[1])
        IN  IF Failed(guid) THEN Out(guid, p_elem.children) ELSE
        LET reference == span_get_text(span_elem[1])
            text == get_cleaned_text(p_elem.children)
        IN  Out(StructuredText("list", text, guid.val[1], reference),
                ExtractChildTags(p_elem.children))

_parse_section(p_elem) ==
    LET span_elem == FindSpanByClass(p_elem.children, "StkNr")
    IN  IF span_elem = <<>>
        THEN Out(ParserError("Could not find <span> element with class 'StkNr'"),
                 p_elem.children)
        ELSE
        LET guid == get_attr_id(span_elem[1])
        IN  IF Failed(guid) THEN Out(guid, p_elem.children) ELSE
        LET stripped == Strip(span_get_text(span_elem[1]))
            \* [:-1]
            reference == SubSeq(stripped, 1, Len(stripped) - 1)
            text == get_cleaned_text(p_elem.children)
            plain == StructuredText("plain", text, None, None)
        IN  Out(IF Failed(plain) THEN plain
                ELSE StatuteSection(guid.val[1], reference, <<plain.val[1]>>),
                ExtractChildTags(p_elem.children))

\* select_one_Titel2 taking the first <p> element, whatever its class.
select_one_Titel2_FirstP(body) == IF body = <<>> THEN 0 ELSE 1

\* soup.select_one("div.document-content p.Titel2"): its position, or 0.
select_one_Titel2(body) ==
    LET hits == {j \in 1..Len(body) : body[j].cls = "Titel2"}
    IN  IF hits = {} THEN 0 ELSE CHOOSE x \in hits : \A y \in hits : x <= y

_extract_title(body) ==
    LET j == select_one_Titel2(body)
    IN  IF j # 0
        THEN Out(Ok(get_cleaned_text(body[j].children)),
                 ExtractChildTags(body[j].children))
        ELSE Out(ParserError("Could not extract title. No <p> element with class Titel2 found"),
                 <<>>)

(***************************************************************************)
(* The main walk of _parse_chapters.  Its locals are the chapter list and  *)
(* three references; a reference to a node is the node's path in the       *)
(* chapter list (<<>> is None), since a node never moves once appended.    *)
(* Each branch of the loop body returns the exception raised (if any), the *)
(* locals and the element list after it.                                   *)
(***************************************************************************)
WalkStart ==
    [chapters |-> <<>>, current_chapter |-> <<>>,
     current_paragraph |-> <<>>, current_section |-> <<>>]

SetChildren(body, k, children) == [body EXCEPT ![k].children = children]

Raised(err, w, body) == [err |-> err, w |-> w, body |-> body]

Passed(w, body) == [err |-> <<>>, w |-> w, body |-> body]

\* OnKapitel with insert(0, ...) in place of append.
OnKapitel_Prepends(w, body, k) ==
    LET r == _parse_chapter(body, k)
    IN  IF Failed(r) THEN Raised(r.err, w, body)
        ELSE Passed([chapters |-> <<r.val[1]>> \o w.chapters,
                     current_chapter |-> <<1>>,
                     current_paragraph |-> <<>>,
                     current_section |-> <<>>], body)

\* OnKapitel numbering the chapter by its place in the chapter list.
OnKapitel_Renumbers(w, body, k) ==
    LET r == _parse_chapter(body, k)
    IN  IF Failed(r) THEN Raised(r.err, w, body)
        ELSE Passed([chapters |-> Append(w.chapters,
                                     [r.val[1] EXCEPT !.number = Len(w.chapters) + 1]),
                     current_chapter |-> <<Len(w.chapters) + 1>>,
                     current_paragraph |-> <<>>,
                     current_section |-> <<>>], body)

\* OnKapitel that leaves current_paragraph and current_section as they were.
OnKapitel_KeepsParagraph(w, body, k) ==
    LET r == _parse_chapter(body, k)
    IN  IF Failed(r) THEN Raised(r.err, w, body)
        ELSE Passed([w EXCEPT !.chapters = Append(@, r.val[1]),
                              !.current_chapter = <<Len(w.chapters) + 1>>], body)

\* OnKapitel that puts the chapter in the place of a last chapter without
\* paragraphs.
OnKapitel_DropsEmpty(w, body, k) ==
    LET r == _parse_chapter(body, k)
        kept == IF w.chapters # <<>>
                   /\ w.chapters[Len(w.chapters)].paragraphs = <<>>
                THEN SubSeq(w.chapters, 1, Len(w.chapters) - 1)
                ELSE w.chapters
    IN  IF Failed(r) THEN Raised(r.err, w, body)
        ELSE Passed([chapters |-> Append(kept, r.val[1]),
                     current_chapter |-> <<Len(kept) + 1>>,
                     current_paragraph |-> <<>>,
                     current_section |-> <<>>], body)

\* if "Kapitel" in p_elem.get("class", [])
OnKapitel(w, body, k) ==
    LET r == _parse_chapter(body, k)
    IN  IF Failed(r) THEN Raised(r.err, w, body)
        ELSE Passed([chapters |-> Append(w.chapters, r.val[1]),
                     current_chapter |-> <<Len(w.chapters) + 1>>,
                     current_paragraph |-> <<>>,
                     current_section |-> <<>>], body)

\* OnParagraf appending to the first chapter in place of the current one.
OnParagraf_FirstChapter(w, body, k) ==
    IF w.current_chapter = <<>>
    THEN Raised(ParserError("Found paragraph outside chapter").err, w, body)
    ELSE LET r == _parse_paragraph(body[k])
             left == SetChildren(body, k, r.children)
         IN  IF Failed(r) THEN Raised(r.err, w, left)
             ELSE Passed([w EXCEPT
                            !.chapters[1].paragraphs = Append(@, r.val[1]),
                            !.current_paragraph =
                                <<1, Len(w.chapters[1].paragraphs) + 1>>,
                            !.current_section = <<>>], left)

\* OnParagraf that leaves current_section as it was.
OnParagraf_KeepsSection(w, body, k) ==
    IF w.current_chapter = <<>>
    THEN Raised(ParserError("Found paragraph outside chapter").err, w, body)
    ELSE LET r == _parse_paragraph(body[k])
             c == w.current_chapter[1]
             left == SetChildren(body, k, r.children)
         IN  IF Failed(r) THEN Raised(r.err, w, left)
             ELSE Passed([w EXCEPT
                            !.chapters[c].paragraphs = Append(@, r.val[1]),
                            !.current_paragraph =
                                <<c, Len(w.chapters[c].paragraphs) + 1>>], left)

\* OnParagraf that skips a paragraph whose id a paragraph of the tree has.
OnParagraf_SkipsKnownId(w, body, k) ==
    IF w.current_chapter = <<>>
    THEN Raised(ParserError("Found paragraph outside chapter").err, w, body)
    ELSE LET r == _parse_paragraph(body[k])
             c == w.current_chapter[1]
             left == SetChildren(body, k, r.children)
         IN  IF Failed(r) THEN Raised(r.err, w, left)
             ELSE IF \E x \in 1..Len(w.chapters) :
                        \E y \in 1..Len(w.chapters[x].paragraphs) :
                            w.chapters[x].paragraphs[y].id = r.val[1].id
             THEN Passed(w, left)
             ELSE Passed([w EXCEPT
                            !.chapters[c].paragraphs = Append(@, r.val[1]),
                            !.current_paragraph =
                                <<c, Len(w.chapters[c].paragraphs) + 1>>,
                            !.current_section = <<>>], left)

\* elif "Paragraf" in p_elem.get("class", [])
OnParagraf(w, body, k) ==
    IF w.current_chapter = <<>>
    THEN Raised(ParserError("Found paragraph outside chapter").err, w, body)
    ELSE LET r == _parse_paragraph(body[k])
             c == w.current_chapter[1]
             left == SetChildren(body, k, r.children)
         IN  IF Failed(r) THEN Raised(r.err, w, left)
             ELSE Passed([w EXCEPT
                            !.chapters[c].paragraphs = Append(@, r.val[1]),
                            !.current_paragraph =
                                <<c, Len(w.chapters[c].paragraphs) + 1>>,
                            !.current_section = <<>>], left)

\* OnListe1 without the leaf-node rule: always the current paragraph.
OnListe1_AlwaysParagraph(w, body, k) ==
    IF w.current_paragraph = <<>>
    THEN Raised(ParserError("Found list outside paragraph").err, w, body)
    ELSE LET r == _parse_list_block(body[k])
             left == SetChildren(body, k, r.children)
             c == w.current_paragraph[1]
             p == w.current_paragraph[2]
         IN  IF Failed(r) THEN Raised(r.err, w, left)
             ELSE Passed([w EXCEPT
                        !.chapters[c].paragraphs[p].texts =
                            Append(@, r.val[1])], left)

\* OnListe1 skipping a list item that has no open paragraph.
OnListe1_SkipsOrphan(w, body, k) ==
    IF w.current_paragraph = <<>>
    THEN Passed(w, body)
    ELSE OnListe1_AlwaysParagraph(w, body, k)

\* elif "Liste1" in p_elem.get("class", [])
OnListe1(w, body, k) ==
    IF w.current_paragraph = <<>>
    THEN Raised(ParserError("Found list outside paragraph").err, w, body)
    ELSE LET r == _parse_list_block(body[k])
             left == SetChildren(body, k, r.children)
             c == w.current_paragraph[1]
             p == w.current_paragraph[2]
         IN  IF Failed(r) THEN Raised(r.err, w, left)
             ELSE IF w.current_section # <<>>
             THEN LET sc == w.current_section[1]
                      sp == w.current_section[2]
                      ss == w.current_section[3]
                  IN  Passed([w EXCEPT
                        !.chapters[sc].paragraphs[sp].sections[ss].texts =
                            Append(@, r.val[1])], left)
             ELSE Passed([w EXCEPT
                        !.chapters[c].paragraphs[p].texts =
                            Append(@, r.val[1])], left)

\* OnStk2 that appends the section and leaves current_section as it was.
OnStk2_KeepsCurrent(w, body, k) ==
    IF w.current_paragraph = <<>>
    THEN Raised(ParserError("Found section outside paragraph").err, w, body)
    ELSE LET r == _parse_section(body[k])
             left == SetChildren(body, k, r.children)
             c == w.current_paragraph[1]
             p == w.current_paragraph[2]
         IN  IF Failed(r) THEN Raised(r.err, w, left)
             ELSE Passed([w EXCEPT
                    !.chapters[c].paragraphs[p].sections = Append(@, r.val[1])],
                    left)

\* elif "Stk2" in p_elem.get("class", [])
OnStk2(w, body, k) ==
    IF w.current_paragraph = <<>>
    THEN Raised(ParserError("Found section outside paragraph").err, w, body)
    ELSE LET r == _parse_section(body[k])
             left == SetChildren(body, k, r.children)
             c == w.current_paragraph[1]
             p == w.current_paragraph[2]
         IN  IF Failed(r) THEN Raised(r.err, w, left)
             ELSE Passed([w EXCEPT
                    !.chapters[c].paragraphs[p].sections = Append(@, r.val[1]),
                    !.current_section =
                        <<c, p, Len(w.chapters[c].paragraphs[p].sections) + 1>>],
                    left)

\* The markers the loop body tests for, in the order of its if/elif chain.
Markers == <<"Kapitel", "Paragraf", "Liste1", "Stk2", "IkraftTekst">>

IsMarker(cls) == \E m \in 1..Len(Markers) : Markers[m] = cls

\* _parse_chapters as a function of the element list: the locals at the end
\* of the loop, or the exception that aborted it.
RECURSIVE WalkFrom(_, _, _)
WalkFrom(w, body, k) ==
    IF k > Len(body) THEN Passed(w, body)
    ELSE LET cls == body[k].cls
             r == IF cls = "Kapitel" THEN OnKapitel(w, body, k)
                  ELSE IF cls = "Paragraf" THEN OnParagraf(w, body, k)
                  ELSE IF cls = "Liste1" THEN OnListe1(w, body, k)
                  ELSE IF cls = "Stk2" THEN OnStk2(w, body, k)
                  ELSE Passed(w, body)
         IN  IF cls = "IkraftTekst" THEN Passed(w, body)
             ELSE IF r.err # <<>> THEN r
             ELSE WalkFrom(r.w, r.body, k + 1)

_parse_chapters(body) == WalkFrom(WalkStart, body, 1)

(***************************************************************************)
(* Inputs: the documents the model reads.  The element at position k       *)
(* carries identifiers made of k, as the publisher's identifiers are       *)
(* unique in a document.                                                   *)
(***************************************************************************)
D(k) == <<"1", "2", "3", "4", "5", "6", "7", "8", "9">>[k]

Elem(cls, k) ==
    CASE cls = "Kapitel" ->
           P(cls, <<"c", D(k)>>,
             <<Span("", <<"K", "a", "p", D(k)>>, <<"K", "a", "p", ".", " ", D(k)>>)>>)
      [] cls = "KapitelOverskrift2" ->
           P(cls, None, <<Span("", None, <<" ", "T", " ", " ", D(k), "\n">>)>>)
      [] cls = "Paragraf" ->
           P(cls, <<"p", D(k)>>,
             <<Span("ParagrafNr", <<"P", "a", "r", D(k)>>, <<"#", " ", D(k), ".">>),
               TextNode(<<" ", "a", " ", " ", D(k), "\n">>)>>)
      [] cls = "Stk2" ->
           P(cls, <<"s", D(k)>>,
             <<Span("StkNr", <<"k", D(k)>>, <<"S", "t", "k", ".", " ", D(k), ".">>),
               TextNode(<<" ", "b", " ", D(k)>>)>>)
      [] cls = "Liste1" ->
           P(cls, <<"l", D(k)>>,
             <<Span("Liste1Nr", <<"i", D(k)>>, <<D(k), ")">>),
               TextNode(<<" ", "c", " ", D(k)>>)>>)
      [] cls = "IkraftTekst" ->
           P(cls, <<"x", D(k)>>, <<TextNode(<<"e", "n", "d">>)>>)
      [] cls = "Titel2" ->
           P(cls, None, <<TextNode(<<"\n", " ", "L", "o", "v", " ", " ", "X", " ">>)>>)

\* The element with a part left out: its own id, its marker span, or the
\* id of its spans.
ElemWith(cls, k, defect) ==
    LET e == Elem(cls, k)
    IN  CASE defect = "none" -> e
          [] defect = "no_id" -> [e EXCEPT !.id = None]
          [] defect = "no_span" ->
               [e EXCEPT !.children = ExtractChildTags(@)]
          [] defect = "span_no_id" ->
               [e EXCEPT !.children =
                   [n \in 1..Len(@) |->
                       IF @[n].tag = "span" THEN [@[n] EXCEPT !.id = None]
                       ELSE @[n]]]
          [] defect = "empty_id" -> [e EXCEPT !.id = <<>>]
          [] defect = "span_empty_id" ->
               [e EXCEPT !.children =
                   [n \in 1..Len(@) |->
                       IF @[n].tag = "span" THEN [@[n] EXCEPT !.id = <<>>]
                       ELSE @[n]]]
          [] defect = "span_text_dot" ->
               [e EXCEPT !.children =
                   [n \in 1..Len(@) |->
                       IF @[n].tag = "span" THEN [@[n] EXCEPT !.text = <<".">>]
                       ELSE @[n]]]
          [] defect = "absent" -> P("Other", None, <<>>)
          [] defect = "span_text_inner_dot" ->
               [e EXCEPT !.children =
                   [n \in 1..Len(@) |->
                       IF @[n].tag = "span"
                       THEN [@[n] EXCEPT !.text = <<D(k), ".", "a", ".">>]
                       ELSE @[n]]]
          [] defect = "span_id_same" ->
               [e EXCEPT !.children =
                   [n \in 1..Len(@) |->
                       IF @[n].tag = "span"
                       THEN [@[n] EXCEPT !.id = <<"P", "a", "r", "1">>]
                       ELSE @[n]]]
          [] defect = "no_text" ->
               [e EXCEPT !.children = SelectSeq(@, LAMBDA c : c.tag = "span")]

Defects == {"none", "no_id", "no_span", "span_no_id"}

\* The defects, an id or a marker text that is present and empty, an
\* element of another class in the place of the element, a marker text with
\* a dot inside it, and an element with no text of its own.
Faults ==
    Defects \cup {"empty_id", "span_empty_id", "span_text_dot", "absent",
                  "span_text_inner_dot", "no_text"}

Body(classes) == [k \in 1..Len(classes) |-> Elem(classes[k], k)]

HeadingText(num, dd, mm, yyyy) ==
    <<"L", "B", "K", " ", "n", "r", " ">> \o num \o <<" ", "a", "f", " ">>
        \o dd \o <<"/">> \o mm \o <<"/">> \o yyyy

Heading1180 ==
    HeadingText(<<"1", "1", "8", "0">>, <<"2", "1">>, <<"0", "9">>,
                <<"2", "0", "2", "3">>)

Document(h5, body) == [h5 |-> h5, body |-> body]

NoDocument == Document(None, <<>>)

\* The classes a drawn element may carry.
FreeClasses == {"Kapitel", "KapitelOverskrift2", "Paragraf", "Stk2", "Liste1",
                "IkraftTekst"}

\* A title element, up to MaxElems drawn elements, and possibly a closing
\* chapter-title element.
WalkDocuments ==
    {Document(Heading1180,
              Body(<<"Titel2">> \o free
                   \o (IF closing THEN <<"KapitelOverskrift2">> ELSE <<>>))) :
        free \in UNION {[1..n -> FreeClasses] : n \in 0..MaxElems},
        closing \in BOOLEAN}

(***************************************************************************)
(* Statute.from_json_file: cls.model_validate_json builds every node of    *)
(* the JSON document through its model class, so through the validators.   *)
(* A key that is null or left out is None.                                 *)
(***************************************************************************)
validate_StructuredText(j) == StructuredText(j.type, j.text, j.guid, j.reference)

\* A list field: the items validated in order, the first failure raised.
Validated(first, rest) ==
    IF Failed(first) THEN first
    ELSE IF Failed(rest) THEN rest
    ELSE Ok(<<first.val[1]>> \o rest.val[1])

RECURSIVE validate_texts(_)
validate_texts(js) ==
    IF js = <<>> THEN Ok(<<>>)
    ELSE Validated(validate_StructuredText(Head(js)), validate_texts(Tail(js)))

StatuteSection_of(j, texts) ==
    IF Failed(texts) THEN texts
    ELSE StatuteSection(j.guid, j.reference, texts.val[1])

validate_StatuteSection(j) == StatuteSection_of(j, validate_texts(j.texts))

RECURSIVE validate_sections(_)
validate_sections(js) ==
    IF js = <<>> THEN Ok(<<>>)
    ELSE Validated(validate_StatuteSection(Head(js)), validate_sections(Tail(js)))

StatuteParagraph_of(j, texts, sections) ==
    IF Failed(texts) THEN texts
    ELSE IF Failed(sections) THEN sections
    ELSE StatuteParagraph(j.guid, j.id, j.reference, texts.val[1],
                          sections.val[1])

validate_StatuteParagraph(j) ==
    StatuteParagraph_of(j, validate_texts(j.texts), validate_sections(j.sections))

RECURSIVE validate_paragraphs(_)
validate_paragraphs(js) ==
    IF js = <<>> THEN Ok(<<>>)
    ELSE Validated(validate_StatuteParagraph(Head(js)),
                   validate_paragraphs(Tail(js)))

StatuteChapter_of(j, paragraphs) ==
    IF Failed(paragraphs) THEN paragraphs
    ELSE StatuteChapter(j.number, j.title, j.guid, paragraphs.val[1])

validate_StatuteChapter(j) == StatuteChapter_of(j, validate_paragraphs(j.paragraphs))

RECURSIVE validate_chapters(_)
validate_chapters(js) ==
    IF js = <<>> THEN Ok(<<>>)
    ELSE Validated(validate_StatuteChapter(Head(js)), validate_chapters(Tail(js)))

Statute_of(j, chs) ==
    IF Failed(chs) THEN chs
    ELSE Ok(Statute(j.number, j.date, j.title, chs.val[1]))

\* Statute.model_validate_json(json_data=json_data)
model_validate_json(j) == Statute_of(j, validate_chapters(j.chapters))

\* JSON documents: a statute of one chapter and one paragraph with up to
\* MaxTexts texts and a section with up to one text, each text any
\* combination of type, guid and reference.
JsonTexts ==
    {[type |-> t, text |-> <<"a">>, guid |-> g, reference |-> r] :
        t \in {"plain", "list", "bullet"},
        g \in {None, <<"g">>},
        r \in {None, <<"1", ")">>}}

JsonStatute(ptexts, stexts) ==
    [number |-> 1180,
     date |-> [year |-> 2023, month |-> 9, day |-> 21],
     title |-> <<"L", "o", "v">>,
     chapters |-> <<
        [number |-> 1, title |-> <<"T">>, guid |-> <<"c">>,
         paragraphs |-> <<
            [guid |-> <<"p">>, id |-> <<"P", "a", "r", "1">>,
             reference |-> <<"1">>, texts |-> ptexts,
             sections |-> <<[guid |-> <<"s">>, reference |-> <<"2">>,
                             texts |-> stexts]>>]>>]>>]

JsonDocuments ==
    {JsonStatute(ptexts, stexts) :
        ptexts \in UNION {[1..n -> JsonTexts] : n \in 0..MaxTexts},
        stexts \in UNION {[1..n -> JsonTexts] : n \in 0..1}}

\* No JSON document: the run is a parse.
NoJson ==
    [number |-> 0, date |-> [year |-> 1, month |-> 1, day |-> 1],
     title |-> <<>>, chapters |-> <<>>]

(***************************************************************************)
(* The state: the input file, and one run of RetsinformationStatuteParser  *)
(* from run() to the value returned or the exception raised.               *)
(***************************************************************************)
VARIABLES
    file,               \* the document in the input file
    soup,               \* run: the element tree parsed from the file
    pc,                 \* where the run is
    id,                 \* _parse: id (None is <<>>)
    date,               \* _parse: date
    title,              \* _parse: title
    chapters,           \* _parse_chapters: chapters
    current_chapter,    \* _parse_chapters: current_chapter
    current_paragraph,  \* _parse_chapters: current_paragraph
    current_section,    \* _parse_chapters: current_section
    i,                  \* _parse_chapters: the position of p_elem in p_elements
    error,              \* the exception that left run(), if any
    result,             \* the Statute run() returned, if any
    json_data,          \* from_json_file: the JSON document in statute_path
    loaded,             \* the Statute from_json_file returned, if any
    other,              \* a second invocation of run(), with its own locals
    env                 \* the command-line tool around the run, and its files

vars == <<file, soup, pc, id, date, title, chapters, current_chapter,
          current_paragraph, current_section, i, error, result, json_data,
          loaded, other, env>>

loaderVars == <<json_data, loaded>>

parseLocals == <<id, date, title>>

walkLocals == <<chapters, current_chapter, current_paragraph, current_section, i>>

\* A run of the parser held as one record: the state of an invocation.
Invocation(f) ==
    [file |-> f, soup |-> NoDocument, pc |-> "run", id |-> <<>>, date |-> <<>>,
     title |-> <<>>, w |-> WalkStart, i |-> 0, error |-> <<>>, result |-> <<>>]

\* No second invocation.
NoInvocation == [Invocation(NoDocument) EXCEPT !.pc = "none"]

\* The files and options of a command-line tool, and where its main is.
Tool(name, input_exists, output, force) ==
    [tool |-> name, pc |-> "main", input_exists |-> input_exists,
     existed |-> output # "absent", output |-> output, force |-> force,
     error |-> <<>>]

\* No tool: the parser is constructed and run by a caller of the library,
\* on a file that exists.
NoTool == [Tool("none", TRUE, "absent", FALSE) EXCEPT !.pc = "none"]

InitRun ==
    /\ env = NoTool
    /\ soup = NoDocument
    /\ pc = "run"
    /\ id = <<>> /\ date = <<>> /\ title = <<>>
    /\ chapters = WalkStart.chapters
    /\ current_chapter = WalkStart.current_chapter
    /\ current_paragraph = WalkStart.current_paragraph
    /\ current_section = WalkStart.current_section
    /\ i = 0
    /\ error = <<>>
    /\ result = <<>>
    /\ json_data = NoJson
    /\ loaded = <<>>

InitParser == InitRun /\ other = NoInvocation

Init == file \in WalkDocuments /\ InitParser

\* The locals of the walk as one record.
W == [chapters |-> chapters, current_chapter |-> current_chapter,
      current_paragraph |-> current_paragraph,
      current_section |-> current_section]

\* Propagate with the exception caught and the chapters so far returned.
Propagate_ReturnsPartial(err) ==
    /\ pc' = "raised"
    /\ error' = err
    /\ result' = <<Statute(0, [year |-> 1, month |-> 1, day |-> 1], <<>>, chapters)>>

\* An exception leaves run(): nothing is returned.
Propagate(err) == pc' = "raised" /\ error' = err /\ UNCHANGED result

\* run: open the file and build the element tree.
Run ==
    /\ pc = "run"
    /\ soup' = file
    /\ pc' = "extract_id_and_date"
    /\ UNCHANGED <<loaderVars, other, env, file, parseLocals, walkLocals, error, result>>

\* _parse: id, date = self._extract_id_and_date(soup)
ExtractIdAndDate ==
    /\ pc = "extract_id_and_date"
    /\ LET r == _extract_id_and_date(soup.h5)
       IN  IF Failed(r)
           THEN Propagate(r.err) /\ UNCHANGED <<id, date>>
           ELSE /\ id' = <<r.val[1].number>>
                /\ date' = <<r.val[1].date>>
                /\ pc' = "extract_title"
                /\ UNCHANGED <<error, result>>
    /\ UNCHANGED <<loaderVars, other, env, file, soup, title, walkLocals>>

\* _parse: title = self._extract_title(soup); on success _parse_chapters is
\* entered and p_elements selected.
ExtractTitle ==
    /\ pc = "extract_title"
    /\ LET r == _extract_title(soup.body)
       IN  IF Failed(r)
           THEN Propagate(r.err) /\ UNCHANGED <<soup, title, i>>
           ELSE /\ title' = r.val
                /\ soup' = [soup EXCEPT !.body =
                              SetChildren(@, select_one_Titel2(@), r.children)]
                /\ i' = 1
                /\ pc' = "parse_chapters"
                /\ UNCHANGED <<error, result>>
    /\ UNCHANGED <<loaderVars, other, env, file, id, date, chapters, current_chapter,
                   current_paragraph, current_section>>

AtElement(cls) ==
    /\ pc = "parse_chapters"
    /\ i <= Len(soup.body)
    /\ soup.body[i].cls = cls

\* One iteration of the loop that took a parsing branch, with outcome r.
Iterate(r) ==
    /\ soup' = [soup EXCEPT !.body = r.body]
    /\ IF r.err # <<>>
       THEN Propagate(r.err) /\ UNCHANGED walkLocals
       ELSE /\ chapters' = r.w.chapters
            /\ current_chapter' = r.w.current_chapter
            /\ current_paragraph' = r.w.current_paragraph
            /\ current_section' = r.w.current_section
            /\ i' = i + 1
            /\ UNCHANGED <<pc, error, result>>
    /\ UNCHANGED <<loaderVars, other, env, file, parseLocals>>

StepKapitel ==
    /\ AtElement("Kapitel")
    /\ \E r \in {OnKapitel(W, soup.body, i)} : Iterate(r)

StepParagraf ==
    /\ AtElement("Paragraf")
    /\ \E r \in {OnParagraf(W, soup.body, i)} : Iterate(r)

StepListe1 ==
    /\ AtElement("Liste1")
    /\ \E r \in {OnListe1(W, soup.body, i)} : Iterate(r)

StepStk2 ==
    /\ AtElement("Stk2")
    /\ \E r \in {OnStk2(W, soup.body, i)} : Iterate(r)

\* elif "IkraftTekst" in p_elem.get("class", []): break
StepIkraftTekst ==
    /\ AtElement("IkraftTekst")
    /\ pc' = "return_chapters"
    /\ UNCHANGED <<loaderVars, other, env, file, soup, parseLocals, walkLocals, error, result>>

\* StepOther that closes the current section.
StepOther_ClosesSection ==
    /\ pc = "parse_chapters"
    /\ i <= Len(soup.body)
    /\ ~IsMarker(soup.body[i].cls)
    /\ i' = i + 1
    /\ current_section' = <<>>
    /\ UNCHANGED <<loaderVars, other, env, file, soup, pc, parseLocals, chapters,
                   current_chapter, current_paragraph, error, result>>

\* StepOther that stays on the element.
StepOther_Stays ==
    /\ pc = "parse_chapters"
    /\ i <= Len(soup.body)
    /\ ~IsMarker(soup.body[i].cls)
    /\ UNCHANGED vars

\* No branch of the chain is taken: the next element.
StepOther ==
    /\ pc = "parse_chapters"
    /\ i <= Len(soup.body)
    /\ ~IsMarker(soup.body[i].cls)
    /\ i' = i + 1
    /\ UNCHANGED <<loaderVars, other, env, file, soup, pc, parseLocals, chapters, current_chapter,
                   current_paragraph, current_section, error, result>>

\* The for loop ran out of elements.
EndOfElements ==
    /\ pc = "parse_chapters"
    /\ i > Len(soup.body)
    /\ pc' = "return_chapters"
    /\ UNCHANGED <<loaderVars, other, env, file, soup, parseLocals, walkLocals, error, result>>

\* return chapters; return Statute(number=id, date=date, title=title,
\* chapters=chapters)
Return ==
    /\ pc = "return_chapters"
    /\ result' = <<Statute(id[1], date[1], title[1], chapters)>>
    /\ pc' = "done"
    /\ UNCHANGED <<loaderVars, other, env, file, soup, parseLocals, walkLocals, error>>

Next ==
    \/ Run
    \/ ExtractIdAndDate
    \/ ExtractTitle
    \/ StepKapitel
    \/ StepParagraf
    \/ StepListe1
    \/ StepStk2
    \/ StepIkraftTekst
    \/ StepOther
    \/ EndOfElements
    \/ Return

Spec == Init /\ [][Next]_vars

(***************************************************************************)
(* Reading the tree against the input file.  A chapter and a paragraph     *)
(* carry the id of their element, a section and a list item the id of      *)
(* their marker span.                                                      *)
(***************************************************************************)
Positions == 1..Len(file.body)

ClassAt(k) == file.body[k].cls

SpanIdsAt(k) ==
    {file.body[k].children[n].id : n \in
        {m \in 1..Len(file.body[k].children) :
            file.body[k].children[m].tag = "span"}}

\* The position of the element a node was parsed from (0: of none).
PosOfGuid(g) ==
    LET at == {k \in Positions : file.body[k].id = g \/ g \in SpanIdsAt(k)}
    IN  IF at = {} THEN 0 ELSE CHOOSE k \in at : \A x \in at : k <= x

\* No element strictly between positions a and b carries one of the classes.
NoneBetween(a, b, classes) ==
    \A k \in (a + 1)..(b - 1) : ClassAt(k) \notin classes

\* The positions the walk has been through without an exception.
Walked == IF i = 0 THEN {} ELSE 1..(i - 1)

ListTexts(texts) == {n \in 1..Len(texts) : texts[n].type = "list"}

ParagraphPaths(chs) ==
    UNION {{<<c, p>> : p \in 1..Len(chs[c].paragraphs)} : c \in 1..Len(chs)}

SectionPaths(chs) ==
    UNION {{<<cp[1], cp[2], q>> :
               q \in 1..Len(chs[cp[1]].paragraphs[cp[2]].sections)} :
           cp \in ParagraphPaths(chs)}

ParagraphAt(chs, cp) == chs[cp[1]].paragraphs[cp[2]]

SectionAt(chs, cps) == chs[cps[1]].paragraphs[cps[2]].sections[cps[3]]

\* The paths of the containers whose texts hold a list item with this guid.
HoldersOf(chs, g) ==
    {cp \in ParagraphPaths(chs) :
        \E n \in ListTexts(ParagraphAt(chs, cp).texts) :
            ParagraphAt(chs, cp).texts[n].guid = g}
    \cup
    {cps \in SectionPaths(chs) :
        \E n \in ListTexts(SectionAt(chs, cps).texts) :
            SectionAt(chs, cps).texts[n].guid = g}

ErrorIs(cls, msg) == pc = "raised" /\ error = <<[cls |-> cls, msg |-> msg]>>

(***************************************************************************)
(* C1.  A list item is appended to the texts of the deepest open           *)
(* container: every list item the walk has been through is held by exactly *)
(* one container, and between that container's element and the list item   *)
(* no chapter, paragraph or subsection starts (so it is the current        *)
(* section when one is open in the current paragraph, else the current     *)
(* paragraph, and never an earlier section or paragraph).                  *)
(***************************************************************************)
Starts == {"Kapitel", "Paragraf", "Stk2"}

C1_ListItemInDeepestOpenContainer ==
    /\ \A k \in Walked :
          ClassAt(k) = "Liste1" =>
              \E g \in SpanIdsAt(k) : Cardinality(HoldersOf(chapters, g)) = 1
    /\ \A cp \in ParagraphPaths(chapters) :
          \A n \in ListTexts(ParagraphAt(chapters, cp).texts) :
              LET from == PosOfGuid(ParagraphAt(chapters, cp).guid)
                  to == PosOfGuid(ParagraphAt(chapters, cp).texts[n].guid)
              IN  from # 0 /\ from < to /\ NoneBetween(from, to, Starts)
    /\ \A cps \in SectionPaths(chapters) :
          \A n \in ListTexts(SectionAt(chapters, cps).texts) :
              LET from == PosOfGuid(SectionAt(chapters, cps).guid)
                  to == PosOfGuid(SectionAt(chapters, cps).texts[n].guid)
              IN  from # 0 /\ from < to /\ NoneBetween(from, to, Starts)

\* A list item has been attached to a section that is not the first of its
\* paragraph.
C1_Witness ==
    \E cps \in SectionPaths(chapters) :
        cps[3] >= 2 /\ ListTexts(SectionAt(chapters, cps).texts) # {}

(***************************************************************************)
(* C2.  Nothing positioned after the first end-of-content element          *)
(* contributes to the returned tree: the chapters returned are those of    *)
(* the document cut after that element.                                    *)
(***************************************************************************)
EndOfContent ==
    LET ends == {k \in Positions : ClassAt(k) = "IkraftTekst"}
    IN  IF ends = {} THEN Len(file.body)
        ELSE CHOOSE k \in ends : \A x \in ends : k <= x

C2_NothingAfterEndOfContent ==
    pc = "done" =>
        LET cut == _parse_chapters(SubSeq(file.body, 1, EndOfContent))
        IN  cut.err = <<>> /\ result[1].chapters = cut.w.chapters

(***************************************************************************)
(* C3.  A list item met while no paragraph is open in the current chapter  *)
(* aborts the parse with "Found list outside paragraph".                   *)
(***************************************************************************)
\* A paragraph starts before position k, with no chapter start in between.
ParagraphOpenAt(k) ==
    \E p \in 1..(k - 1) :
        ClassAt(p) = "Paragraf" /\ NoneBetween(p, k, {"Kapitel"})

\* The walk does not get past position k: it raises the error there.
AbortsAt(k, msg) ==
    /\ i <= k
    /\ (i = k /\ pc # "parse_chapters") => ErrorIs("ParserError", msg)

C3_ListOutsideParagraph ==
    \A k \in Positions :
        (ClassAt(k) = "Liste1" /\ ~ParagraphOpenAt(k)) =>
            AbortsAt(k, "Found list outside paragraph")

\* The error is raised after a chapter start that follows a chapter with a
\* paragraph.
C3_Witness ==
    /\ ErrorIs("ParserError", "Found list outside paragraph")
    /\ Len(chapters) >= 2
    /\ chapters[1].paragraphs # <<>>

(***************************************************************************)
(* C4.  A paragraph start before any chapter start aborts the parse with   *)
(* "Found paragraph outside chapter"; otherwise the paragraph is appended  *)
(* to the most recently opened chapter and to no other.                    *)
(***************************************************************************)
ChapterOpenAt(k) == \E c \in 1..(k - 1) : ClassAt(c) = "Kapitel"

C4_ParagraphOutsideChapter ==
    /\ \A k \in Positions :
          (ClassAt(k) = "Paragraf" /\ ~ChapterOpenAt(k)) =>
              AbortsAt(k, "Found paragraph outside chapter")
    /\ \A k \in Walked :
          ClassAt(k) = "Paragraf" =>
              Cardinality({cp \in ParagraphPaths(chapters) :
                  ParagraphAt(chapters, cp).guid = file.body[k].id}) = 1
    /\ \A cp \in ParagraphPaths(chapters) :
          LET from == PosOfGuid(chapters[cp[1]].guid)
              to == PosOfGuid(ParagraphAt(chapters, cp).guid)
          IN  from # 0 /\ from < to /\ NoneBetween(from, to, {"Kapitel"})

\* A paragraph has been appended to the second chapter while the first has
\* one too.
C4_Witness ==
    /\ Len(chapters) >= 2
    /\ chapters[1].paragraphs # <<>>
    /\ chapters[2].paragraphs # <<>>

(***************************************************************************)
(* C5.  A subsection start met while no paragraph is open in the current   *)
(* chapter aborts the parse with "Found section outside paragraph";        *)
(* otherwise the section is appended to the current paragraph and becomes  *)
(* the current section.                                                    *)
(***************************************************************************)
C5_SectionOutsideParagraph ==
    /\ \A k \in Positions :
          (ClassAt(k) = "Stk2" /\ ~ParagraphOpenAt(k)) =>
              AbortsAt(k, "Found section outside paragraph")
    /\ \A k \in Walked :
          ClassAt(k) = "Stk2" =>
              \E g \in SpanIdsAt(k) :
                  /\ Cardinality({cps \in SectionPaths(chapters) :
                         SectionAt(chapters, cps).guid = g}) = 1
                  /\ (k = i - 1) =>
                        /\ current_section \in SectionPaths(chapters)
                        /\ SectionAt(chapters, current_section).guid = g
    /\ \A cps \in SectionPaths(chapters) :
          LET from == PosOfGuid(ParagraphAt(chapters, <<cps[1], cps[2]>>).guid)
              to == PosOfGuid(SectionAt(chapters, cps).guid)
          IN  from # 0 /\ from < to
              /\ NoneBetween(from, to, {"Kapitel", "Paragraf"})

\* A section has been appended to the second paragraph of a chapter.
C5_Witness ==
    \E cps \in SectionPaths(chapters) : cps[2] >= 2 /\ current_section = cps

C5_ErrorWitness ==
    /\ ErrorIs("ParserError", "Found section outside paragraph")
    /\ chapters # <<>>

(***************************************************************************)
(* C6.  run() has two outcomes: it returns the Statute built from the      *)
(* whole walk, or an exception leaves it and nothing is returned, however  *)
(* many elements were processed before the exception.                      *)
(***************************************************************************)
C6_CompleteTreeOrNothing ==
    /\ error # <<>> => (pc = "raised" /\ result = <<>>)
    /\ result # <<>> =>
          /\ pc = "done"
          /\ LET whole == _parse_chapters(file.body)
             IN  /\ whole.err = <<>>
                 /\ result[1] =
                        Statute(id[1], date[1], title[1], whole.w.chapters)
    /\ pc \in {"done", "raised"} => (result = <<>>) # (error = <<>>)

\* An exception was raised after part of the tree had been built.
C6_Witness ==
    /\ pc = "raised"
    /\ result = <<>>
    /\ chapters # <<>>
    /\ chapters[1].paragraphs # <<>>

(***************************************************************************)
(* C7.  The returned tree preserves source order at every level: the       *)
(* chapters, the paragraphs of a chapter, the sections of a paragraph and  *)
(* the texts of a paragraph or section follow the order of the elements    *)
(* they were parsed from.                                                  *)
(***************************************************************************)
\* The positions of the elements a sequence of nodes was parsed from.
SourceOrder(nodes) == [n \in 1..Len(nodes) |-> PosOfGuid(nodes[n].guid)]

Increasing(ps) ==
    /\ \A n \in 1..Len(ps) : ps[n] # 0
    /\ \A m, n \in 1..Len(ps) : m < n => ps[m] < ps[n]

\* The texts of a container parsed from the element at position at: its own
\* plain text first, then its list items.
TextsInOrder(at, texts) ==
    /\ texts # <<>>
    /\ texts[1].type = "plain"
    /\ Increasing(<<at>> \o SourceOrder(Tail(texts)))

TreeInOrder(chs) ==
    /\ Increasing(SourceOrder(chs))
    /\ \A c \in 1..Len(chs) : Increasing(SourceOrder(chs[c].paragraphs))
    /\ \A cp \in ParagraphPaths(chs) :
          /\ Increasing(SourceOrder(ParagraphAt(chs, cp).sections))
          /\ TextsInOrder(PosOfGuid(ParagraphAt(chs, cp).guid),
                          ParagraphAt(chs, cp).texts)
    /\ \A cps \in SectionPaths(chs) :
          TextsInOrder(PosOfGuid(SectionAt(chs, cps).guid),
                       SectionAt(chs, cps).texts)

C7_SourceOrderPreserved == pc = "done" => TreeInOrder(result[1].chapters)

\* A returned tree with two paragraphs in a chapter and two list items in a
\* paragraph.
C7_Witness ==
    /\ pc = "done"
    /\ \E cp \in ParagraphPaths(result[1].chapters) :
          /\ Len(result[1].chapters[cp[1]].paragraphs) >= 2
          /\ Len(ParagraphAt(result[1].chapters, cp).texts) >= 3

(***************************************************************************)
(* Headings.  A heading is written from a number, a day, a month and a     *)
(* year, each given as its digits and the value they stand for; the number *)
(* is padded with up to MaxPad leading zeros, which takes it past the ten  *)
(* digits the regular expression accepts.                                  *)
(***************************************************************************)
Zeros(k) == [n \in 1..k |-> "0"]

NumberCases ==
    {[text |-> Zeros(k) \o b.text, value |-> b.value] :
        k \in 0..MaxPad,
        b \in {[text |-> <<"1", "1", "8", "0">>, value |-> 1180],
               [text |-> <<"7">>, value |-> 7]}}

DayCases ==
    {[text |-> <<"2", "1">>, value |-> 21], [text |-> <<"0", "9">>, value |-> 9],
     [text |-> <<"2", "9">>, value |-> 29], [text |-> <<"3", "1">>, value |-> 31],
     [text |-> <<"0", "0">>, value |-> 0]}

MonthCases ==
    {[text |-> <<"0", "9">>, value |-> 9], [text |-> <<"0", "2">>, value |-> 2],
     [text |-> <<"1", "2">>, value |-> 12], [text |-> <<"2", "1">>, value |-> 21]}

YearCases ==
    {[text |-> <<"2", "0", "2", "3">>, value |-> 2023],
     [text |-> <<"2", "0", "2", "4">>, value |-> 2024],
     [text |-> <<"0", "0", "0", "0">>, value |-> 0]}

WrittenHeadings ==
    {HeadingText(n.text, d.text, m.text, y.text) :
        n \in NumberCases, d \in DayCases, m \in MonthCases, y \in YearCases}

\* The heading inside other text, and with tabs and line breaks for blanks.
EmbeddedHeadings ==
    {<<"\n", " ", "x", " ">> \o Heading1180 \o <<" ", "y", "\n">>,
     [n \in 1..Len(Heading1180) |->
         IF Heading1180[n] = " " THEN "\t" ELSE Heading1180[n]]}

\* Texts the regular expression does not match.
UnmatchedHeadings ==
    {<<>>,
     <<"L", "o", "v">>,
     SubSeq(Heading1180, 5, Len(Heading1180)),
     SubSeq(Heading1180, 1, Len(Heading1180) - 1),
     <<"L", "B", "K", " ">> \o SubSeq(Heading1180, 4, Len(Heading1180)),
     <<"l", "b", "k">> \o SubSeq(Heading1180, 4, Len(Heading1180)),
     [n \in 1..Len(Heading1180) |->
         IF Heading1180[n] = "/" THEN "-" ELSE Heading1180[n]],
     SubSeq(Heading1180, 1, 7) \o SubSeq(Heading1180, 12, Len(Heading1180)),
     SubSeq(Heading1180, 1, 15) \o SubSeq(Heading1180, 17, Len(Heading1180))}

Headings ==
    {None} \cup WrittenHeadings \cup EmbeddedHeadings \cup UnmatchedHeadings

\* Bodies that take the walk through every branch, one without a title and
\* one with a title and a list item outside any paragraph.
HeadingBodies ==
    {Body(<<"Titel2", "Kapitel", "KapitelOverskrift2", "Paragraf", "Liste1",
            "Stk2", "IkraftTekst">>),
     Body(<<"Titel2", "Kapitel", "KapitelOverskrift2">>),
     Body(<<"Kapitel", "Liste1">>),
     Body(<<"Titel2", "Liste1">>)}

HeadingDocuments == {Document(h5, body) : h5 \in Headings, body \in HeadingBodies}

InitHeading == file \in HeadingDocuments /\ InitParser

SpecHeading == InitHeading /\ [][Next]_vars

\* The heading has been dealt with: read, or the exception raised.
PastHeading == pc \notin {"run", "extract_id_and_date"}

\* The run failed in _extract_id_and_date.
FailedAtHeading == pc = "raised" /\ id = <<>>

(***************************************************************************)
(* C9.  A heading "LBK nr N af DD/MM/YYYY" gives number N and the date     *)
(* with day DD, month MM and year YYYY.                                    *)
(* As amended: provided N is written with at most ten digits.              *)
(***************************************************************************)
IsCalendarDate(d, m, y) ==
    /\ y >= 1
    /\ m \in 1..12
    /\ d >= 1
    /\ d <= CASE m \in {1, 3, 5, 7, 8, 10, 12} -> 31
              [] m \in {4, 6, 9, 11} -> 30
              [] OTHER -> IF y % 4 = 0 /\ (y % 100 # 0 \/ y % 400 = 0)
                          THEN 29 ELSE 28

\* The heading written from these cases gives their values.
HeadingGives(n, d, m, y) ==
    (file.h5 = HeadingText(n.text, d.text, m.text, y.text) /\ PastHeading) =>
        /\ id = <<n.value>>
        /\ date = <<[year |-> y.value, month |-> m.value, day |-> d.value]>>
        /\ pc = "done" =>
              /\ result[1].number = n.value
              /\ result[1].date =
                     [year |-> y.value, month |-> m.value, day |-> d.value]

\* The claim as stated: for every N.
C9_HeadingGivesNumberAndDate ==
    \A n \in NumberCases, d \in DayCases, m \in MonthCases, y \in YearCases :
        IsCalendarDate(d.value, m.value, y.value) => HeadingGives(n, d, m, y)

\* C9 as amended: N of at most ten digits.
C9_HeadingOfTenDigitsGivesNumberAndDate ==
    \A n \in NumberCases, d \in DayCases, m \in MonthCases, y \in YearCases :
        (Len(n.text) <= MaxIdDigits /\ IsCalendarDate(d.value, m.value, y.value))
            => HeadingGives(n, d, m, y)

\* "LBK nr 1180 af 21/09/2023" has been returned as 1180 and 2023-09-21.
C9_Witness ==
    /\ file.h5 = Heading1180
    /\ pc = "done"
    /\ result[1].number = 1180
    /\ result[1].date = [year |-> 2023, month |-> 9, day |-> 21]

FromJsonFile ==
    /\ pc = "from_json_file"
    /\ LET r == model_validate_json(json_data)
       IN  IF Failed(r)
           THEN Propagate(r.err) /\ UNCHANGED loaded
           ELSE loaded' = r.val /\ pc' = "loaded" /\ UNCHANGED <<error, result>>
    /\ UNCHANGED <<file, soup, parseLocals, walkLocals, json_data, other, env>>

InitLoader ==
    /\ json_data \in JsonDocuments
    /\ file = NoDocument
    /\ soup = NoDocument
    /\ pc = "from_json_file"
    /\ id = <<>> /\ date = <<>> /\ title = <<>>
    /\ chapters = <<>>
    /\ current_chapter = <<>>
    /\ current_paragraph = <<>>
    /\ current_section = <<>>
    /\ i = 0
    /\ error = <<>>
    /\ result = <<>>
    /\ loaded = <<>>
    /\ other = NoInvocation
    /\ env = NoTool

DefectDocuments ==
    {Document(Heading1180,
        <<Elem("Titel2", 1), Elem("Kapitel", 2), Elem("KapitelOverskrift2", 3),
          Elem("Paragraf", 4), ElemWith("Liste1", 5, d1), Elem("Stk2", 6),
          ElemWith("Liste1", 7, d2)>>
        \o (IF closed THEN <<Elem("IkraftTekst", 8)>> ELSE <<>>)) :
        d1 \in Defects, d2 \in Defects, closed \in BOOLEAN}

InitModel == InitLoader \/ (file \in DefectDocuments /\ InitParser)

NextModel == Next \/ FromJsonFile

SpecModel == InitModel /\ [][NextModel]_vars

(***************************************************************************)
(* C8.  A StructuredText of type list with a null guid or a null reference *)
(* cannot be constructed, by the parser or by the loader, while one of     *)
(* type plain is accepted without them; so every list-typed text of a      *)
(* returned tree has both.                                                 *)
(***************************************************************************)
\* The texts of a tree (of model records or of JSON objects), as a set.
TreeTexts(chs) ==
    UNION {UNION {
        {chs[c].paragraphs[p].texts[n] :
            n \in 1..Len(chs[c].paragraphs[p].texts)}
        \cup UNION {
            {chs[c].paragraphs[p].sections[q].texts[n] :
                n \in 1..Len(chs[c].paragraphs[p].sections[q].texts)} :
            q \in 1..Len(chs[c].paragraphs[p].sections)} :
        p \in 1..Len(chs[c].paragraphs)} :
        c \in 1..Len(chs)}

\* A list-typed text with a null guid or a null reference.
ListWithoutGuidOrReference(t) ==
    t.type = "list" /\ (t.guid = None \/ t.reference = None)

\* A plain text, with or without guid and reference, or a list-typed text
\* with both.
WellFormedText(t) ==
    \/ t.type = "plain"
    \/ t.type = "list" /\ t.guid # None /\ t.reference # None

LoaderReturnedOrRaised == json_data # NoJson /\ pc \in {"loaded", "raised"}

C8_ListTextHasGuidAndReference ==
    /\ \A t \in TreeTexts(chapters) : ~ListWithoutGuidOrReference(t)
    /\ result # <<>> =>
          \A t \in TreeTexts(result[1].chapters) : ~ListWithoutGuidOrReference(t)
    /\ loaded # <<>> =>
          \A t \in TreeTexts(loaded[1].chapters) : ~ListWithoutGuidOrReference(t)
    /\ LoaderReturnedOrRaised =>
          /\ (\E t \in TreeTexts(json_data.chapters) :
                  ListWithoutGuidOrReference(t))
              => (loaded = <<>> /\ pc = "raised"
                  /\ error[1].cls = "ValidationError")
          /\ (\A t \in TreeTexts(json_data.chapters) : WellFormedText(t))
              => (pc = "loaded" /\ loaded[1].chapters = json_data.chapters)

\* The loader has refused a document whose only flaw is a list-typed text
\* without guid, beside a plain text without guid and reference.
C8_Witness ==
    /\ LoaderReturnedOrRaised
    /\ pc = "raised"
    /\ \E t \in TreeTexts(json_data.chapters) :
          t.type = "list" /\ t.guid = None /\ t.reference # None
    /\ \E t \in TreeTexts(json_data.chapters) :
          t.type = "plain" /\ t.guid = None /\ t.reference = None
    /\ \A t \in TreeTexts(json_data.chapters) : t.type \in TextType

(***************************************************************************)
(* C11.  Every chapter-start element the walk has been through gives one   *)
(* chapter, whose guid is the element's id, whose number is the number     *)
(* written after "Kap" in the id of its marker span (not its place in the  *)
(* chapter list), and whose title is the cleaned span text of the first    *)
(* chapter-title element after it in document order.                       *)
(***************************************************************************)
\* The position of the first chapter-title element after position k, or 0.
TitleElementAfter(k) ==
    LET later == {j \in Positions : j > k /\ ClassAt(j) = "KapitelOverskrift2"}
    IN  IF later = {} THEN 0 ELSE CHOOSE j \in later : \A x \in later : j <= x

\* The chapter was read from the chapter-start element at position k: the
\* marker id of that element is "Kap" and one digit, and the span of a
\* chapter-title element at position t reads " T  t\n".
ChapterReadFrom(ch, k) ==
    /\ k # 0
    /\ ClassAt(k) = "Kapitel"
    /\ ch.guid = file.body[k].id
    /\ \E n \in 1..9 :
          /\ SpanIdsAt(k) = {<<"K", "a", "p", D(n)>>}
          /\ ch.number = n
    /\ TitleElementAfter(k) # 0
    /\ ch.title = <<"T", " ", D(TitleElementAfter(k))>>

C11_ChapterFromItsElements ==
    /\ \A k \in Walked :
          ClassAt(k) = "Kapitel" =>
              Cardinality({c \in 1..Len(chapters) :
                              chapters[c].guid = file.body[k].id}) = 1
    /\ \A c \in 1..Len(chapters) :
          ChapterReadFrom(chapters[c], PosOfGuid(chapters[c].guid))
    /\ pc = "done" => result[1].chapters = chapters

\* A returned tree of two chapters with different titles, the first of
\* which is not numbered 1.
C11_Witness ==
    /\ pc = "done"
    /\ Len(result[1].chapters) = 2
    /\ result[1].chapters[1].number # 1
    /\ result[1].chapters[1].title # result[1].chapters[2].title

(***************************************************************************)
(* C13.  The texts of every paragraph and of every section start with the  *)
(* node's own text, of type plain and without guid or reference; every     *)
(* later entry is of type list, and there is one for each list item the    *)
(* walk has been through that follows the node's element with no chapter,  *)
(* paragraph or subsection start in between, in source order.              *)
(***************************************************************************)
\* The list items for which the element at position k is the deepest open
\* container.
ItemsOf(k) ==
    {j \in Walked : j > k /\ ClassAt(j) = "Liste1" /\ NoneBetween(k, j, Starts)}

\* The cleaned own text of the element at position k: the text node of a
\* paragraph start reads " a  k\n", that of a subsection start " b k".
OwnText(k) ==
    IF ClassAt(k) = "Paragraf" THEN <<"a", " ", D(k)>> ELSE <<"b", " ", D(k)>>

OwnTextThenItems(at, texts) ==
    /\ at # 0
    /\ Len(texts) = 1 + Cardinality(ItemsOf(at))
    /\ texts[1] = [type |-> "plain", text |-> OwnText(at),
                   guid |-> None, reference |-> None]
    /\ \A n \in 2..Len(texts) :
          /\ texts[n].type = "list"
          /\ PosOfGuid(texts[n].guid) \in ItemsOf(at)
          /\ texts[n].reference = <<D(PosOfGuid(texts[n].guid)), ")">>
    /\ \A m, n \in 2..Len(texts) :
          m < n => PosOfGuid(texts[m].guid) < PosOfGuid(texts[n].guid)

C13_OwnTextThenListItems ==
    /\ \A cp \in ParagraphPaths(chapters) :
          OwnTextThenItems(PosOfGuid(ParagraphAt(chapters, cp).guid),
                           ParagraphAt(chapters, cp).texts)
    /\ \A cps \in SectionPaths(chapters) :
          OwnTextThenItems(PosOfGuid(SectionAt(chapters, cps).guid),
                           SectionAt(chapters, cps).texts)
    /\ pc = "done" => result[1].chapters = chapters

\* A returned tree with a paragraph start immediately followed by a list
\* item, and a paragraph followed by none.
C13_Witness ==
    /\ pc = "done"
    /\ \E cp \in ParagraphPaths(result[1].chapters) :
          LET texts == ParagraphAt(result[1].chapters, cp).texts
          IN  /\ Len(texts) = 2
              /\ PosOfGuid(texts[2].guid)
                     = PosOfGuid(ParagraphAt(result[1].chapters, cp).guid) + 1
    /\ \E cp \in ParagraphPaths(result[1].chapters) :
          Len(ParagraphAt(result[1].chapters, cp).texts) = 1

(***************************************************************************)
(* Faulty documents: a title, a chapter start, a chapter title, a          *)
(* paragraph start, a subsection start and a list item, of which up to two *)
(* carry a fault, with or without the end-of-content element.              *)
(***************************************************************************)
FaultyClasses ==
    <<"Titel2", "Kapitel", "KapitelOverskrift2", "Paragraf", "Stk2", "Liste1">>

FaultyBody(k1, f1, k2, f2) ==
    [k \in 1..Len(FaultyClasses) |->
        ElemWith(FaultyClasses[k], k,
                 IF k = k1 THEN f1 ELSE IF k = k2 THEN f2 ELSE "none")]

FaultyDocuments ==
    {Document(Heading1180,
              FaultyBody(k1, f1, k2, f2)
              \o (IF closed THEN <<Elem("IkraftTekst", Len(FaultyClasses) + 1)>>
                  ELSE <<>>)) :
        k1 \in 1..Len(FaultyClasses), f1 \in Faults,
        k2 \in 1..Len(FaultyClasses), f2 \in Faults,
        closed \in BOOLEAN}

InitFaulty == file \in FaultyDocuments /\ InitParser

SpecFaulty == InitFaulty /\ [][Next]_vars

(***************************************************************************)
(* C12.  A chapter-start element without a marker span whose id starts     *)
(* with "Kap" aborts the parse with the error that names the marker, and   *)
(* one with the marker and no chapter-title element after it aborts the    *)
(* parse with the error that names the chapter title; a chapter is in the  *)
(* list only if its element has both.                                      *)
(***************************************************************************)
KapIds == {<<"K", "a", "p", D(n)>> : n \in 1..9}

HasKapMarker(k) == SpanIdsAt(k) \cap KapIds # {}

C12_ChapterWithoutNumberOrTitle ==
    /\ \A k \in Positions :
          ClassAt(k) = "Kapitel" =>
              /\ ~HasKapMarker(k) =>
                    AbortsAt(k, "Could not find <span> element with id starting with 'Kap'")
              /\ (HasKapMarker(k) /\ TitleElementAfter(k) = 0) =>
                    AbortsAt(k, "Could not find <p> element with class 'KapitelOverskrift2'")
    /\ Len(chapters) = Cardinality({k \in Walked : ClassAt(k) = "Kapitel"})
    /\ \A c \in 1..Len(chapters) :
          \E k \in Walked :
              /\ ClassAt(k) = "Kapitel"
              /\ chapters[c].guid = file.body[k].id
              /\ HasKapMarker(k)
              /\ <<"K", "a", "p", D(chapters[c].number)>> \in SpanIdsAt(k)
              /\ TitleElementAfter(k) # 0
    /\ result # <<>> => result[1].chapters = chapters

\* The parse was aborted at a chapter start whose span has no id.
C12_Witness ==
    /\ ErrorIs("ParserError",
               "Could not find <span> element with id starting with 'Kap'")
    /\ i # 0
    /\ SpanIdsAt(i) = {None}
    /\ chapters = <<>>

\* The parse was aborted at a chapter start with its marker and no
\* chapter-title element after it.
C12_TitleWitness ==
    /\ ErrorIs("ParserError",
               "Could not find <p> element with class 'KapitelOverskrift2'")
    /\ i # 0
    /\ HasKapMarker(i)
    /\ chapters = <<>>

(***************************************************************************)
(* C14.  In every returned tree the id, the guid and the reference of      *)
(* every paragraph are non-empty strings.                                  *)
(***************************************************************************)
NonEmptyString(v) == v # None /\ v # <<>>

C14_ParagraphFieldsNonEmpty ==
    pc = "done" =>
        \A cp \in ParagraphPaths(result[1].chapters) :
            /\ NonEmptyString(ParagraphAt(result[1].chapters, cp).id)
            /\ NonEmptyString(ParagraphAt(result[1].chapters, cp).guid)
            /\ NonEmptyString(ParagraphAt(result[1].chapters, cp).reference)

\* The part of C14 the document model gives: the three fields are strings.
C14_ParagraphFieldsAreStrings ==
    pc = "done" =>
        \A cp \in ParagraphPaths(result[1].chapters) :
            /\ ParagraphAt(result[1].chapters, cp).id # None
            /\ ParagraphAt(result[1].chapters, cp).guid # None
            /\ ParagraphAt(result[1].chapters, cp).reference # None

(***************************************************************************)
(* Text cleaning.  The title element holds a text, possibly a child tag,   *)
(* a second text and possibly a second child tag; the texts are drawn from *)
(* the letter a, the blank and the line break, up to MaxTextLen            *)
(* characters.  The element tree holds no empty text node, and two texts   *)
(* with no tag between them are one text node.                             *)
(***************************************************************************)
TextChars == {"a", " ", "\n"}

Texts == UNION {[1..n -> TextChars] : n \in 0..MaxTextLen}

TextNodeOf(t) == IF t = <<>> THEN <<>> ELSE <<TextNode(t)>>

ChildTag == Span("", None, <<" ", "x", " ">>)

TitleChildren(t1, s1, t2, s2) ==
    (IF s1 THEN TextNodeOf(t1) \o <<ChildTag>> \o TextNodeOf(t2)
     ELSE TextNodeOf(t1 \o t2))
    \o (IF s2 THEN <<ChildTag>> ELSE <<>>)

TextDocuments ==
    {Document(Heading1180,
              <<P("Titel2", None, TitleChildren(t1, s1, t2, s2)),
                Elem("Kapitel", 2), Elem("KapitelOverskrift2", 3),
                Elem("Paragraf", 4), Elem("Liste1", 5), Elem("Stk2", 6)>>
              \o (IF closed THEN <<Elem("IkraftTekst", 7)>> ELSE <<>>)) :
        t1 \in Texts, s1 \in BOOLEAN, t2 \in Texts, s2 \in BOOLEAN,
        closed \in BOOLEAN}

InitText == file \in TextDocuments /\ InitParser

SpecText == InitText /\ [][Next]_vars

\* get_cleaned_text has been applied to the title element.
TitleCleaned == title # <<>>

\* The title element as it was in the file, and as it is now.
TitleInFile == file.body[select_one_Titel2(file.body)]

TitleInSoup == soup.body[select_one_Titel2(soup.body)]

(***************************************************************************)
(* C15.  Cleaning is idempotent: cleaning the same element a second time,  *)
(* and cleaning an element that holds the cleaned text, both give the text *)
(* the first cleaning gave.                                                *)
(***************************************************************************)
C15_CleaningIsIdempotent ==
    TitleCleaned =>
        /\ get_cleaned_text(TitleInSoup.children) = title[1]
        /\ get_cleaned_text(TextNodeOf(title[1])) = title[1]

\* Cleaning changed the element and the text: the element held a text of
\* two words with blanks to collapse, and a child tag.
C15_Witness ==
    /\ TitleCleaned
    /\ Len(TitleInFile.children) = 2
    /\ TitleInSoup # TitleInFile
    /\ title[1] = <<"a", " ", "a">>
    /\ TitleInFile.children[1].text # title[1]

(***************************************************************************)
(* C16.  The cleaned text of an element is the text that remains when its  *)
(* descendant tags are removed, with every run of blanks and line breaks   *)
(* collapsed to one blank and the ends trimmed: words that blanks separate *)
(* in the remaining text, on either side of a removed tag too, stay        *)
(* separated by one blank.                                                 *)
(***************************************************************************)
\* The text content of the text nodes, as written.
RECURSIVE RemainingText(_)
RemainingText(children) ==
    IF children = <<>> THEN <<>>
    ELSE (IF Head(children).tag = "#text" THEN Head(children).text ELSE <<>>)
         \o RemainingText(Tail(children))

\* The words of a text: its maximal runs of characters that are not blank.
IsWordOf(t, a, b) ==
    /\ a <= b
    /\ \A k \in a..b : t[k] \notin Whitespace
    /\ a = 1 \/ t[a - 1] \in Whitespace
    /\ b = Len(t) \/ t[b + 1] \in Whitespace

WordCount(t) ==
    Cardinality({ab \in (1..Len(t)) \X (1..Len(t)) : IsWordOf(t, ab[1], ab[2])})

C16_CleanedTextIsCollapsedRemainder ==
    TitleCleaned =>
        /\ WordCount(title[1]) = WordCount(RemainingText(TitleInFile.children))
        /\ Remove(title[1], <<" ">>)
               = Remove(Remove(RemainingText(TitleInFile.children), <<" ">>),
                        <<"\n">>)

\* The part of C16 that holds: the cleaned text has no text of a child tag,
\* no line break, no blank at either end and no two blanks in a row.
C16_NoTagsNoDoubleBlanks ==
    TitleCleaned =>
        /\ \A k \in 1..Len(title[1]) : title[1][k] \in {"a", " "}
        /\ title[1] # <<>> => (title[1][1] # " " /\ title[1][Len(title[1])] # " ")
        /\ \A k \in 1..(Len(title[1]) - 1) :
              ~(title[1][k] = " " /\ title[1][k + 1] = " ")

(***************************************************************************)
(* C17.  Cleaning works on a copy: after get_cleaned_text(element) the     *)
(* element still has all its descendant tags.                              *)
(***************************************************************************)
C17_CleaningLeavesElement == TitleCleaned => TitleInSoup = TitleInFile

\* The part of C17 that holds: the text nodes of the element are left as
\* they were, and a marker span that holds text only reads the same after
\* the cleaning as before.
C17_TextNodesLeft ==
    TitleCleaned =>
        TitleInSoup.children = SelectSeq(TitleInFile.children,
                                         LAMBDA c : c.tag = "#text")

(***************************************************************************)
(* C18.  Every extraction rule that does not find an element or attribute  *)
(* it expects fails with the parser's own error, ParserError, and with no  *)
(* other kind of error.                                                    *)
(***************************************************************************)
C18_OnlyNamedParseError == pc = "raised" => error[1].cls = "ParserError"

\* The part of C18 that holds: a missing title, chapter title or marker
\* span, and a marker span without id, raise ParserError where they are
\* met, and the walk goes no further.
C18_MissingSpanIsParserError ==
    /\ (pc = "raised" /\ i = 0) => error[1].cls = "ParserError"
    /\ (pc = "raised" /\ i # 0 /\ (SpanIdsAt(i) = {} \/ None \in SpanIdsAt(i)))
          => error[1].cls = "ParserError"
    /\ \A k \in Positions :
          (ClassAt(k) \in {"Kapitel", "Paragraf", "Stk2", "Liste1"}
              /\ (SpanIdsAt(k) = {} \/ None \in SpanIdsAt(k))) => i <= k

(***************************************************************************)
(* C20.  Without a title element the parse fails with the error that names *)
(* the title.  The heading is read first, then the title, then the body:   *)
(* a missing or malformed heading is reported whether or not the title is  *)
(* there, and with either of them faulty the walk of the body never        *)
(* starts, so no error of the body is reported.                            *)
(***************************************************************************)
HasTitle == \E k \in Positions : ClassAt(k) = "Titel2"

HeadingFaulty == file.h5 = None \/ file.h5 \in UnmatchedHeadings

C20_HeadingThenTitleThenBody ==
    /\ (~HasTitle /\ PastHeading /\ ~FailedAtHeading /\ pc # "extract_title") =>
          ErrorIs("ParserError",
                  "Could not extract title. No <p> element with class Titel2 found")
    /\ (HeadingFaulty /\ PastHeading) =>
          /\ FailedAtHeading
          /\ error[1].cls = "ParserError"
          /\ error[1].msg \in {"Could not find <h5> element",
                                "Could not extract ID and date"}
    /\ (HeadingFaulty \/ ~HasTitle) => (i = 0 /\ chapters = <<>>)
    /\ FailedAtHeading => (title = <<>> /\ i = 0)

\* The parse failed for the missing title on a body that starts with a
\* chapter start no chapter title follows.
C20_Witness ==
    /\ ~HasTitle
    /\ file.body # <<>>
    /\ ClassAt(1) = "Kapitel"
    /\ TitleElementAfter(1) = 0
    /\ ErrorIs("ParserError",
               "Could not extract title. No <p> element with class Titel2 found")

(***************************************************************************)
(* Two invocations.  The second invocation runs over its own input         *)
(* between the steps of the first; its file, element tree and locals are   *)
(* the fields of the record other.                                         *)
(***************************************************************************)
\* _parse: the whole of a run on its own, from the element tree to the
\* Statute returned or the exception raised.
_parse(doc) ==
    LET id_date == _extract_id_and_date(doc.h5)
        t == _extract_title(doc.body)
        chs == _parse_chapters(
                   SetChildren(doc.body, select_one_Titel2(doc.body), t.children))
    IN  IF Failed(id_date) THEN Raise(id_date.err[1].cls, id_date.err[1].msg)
        ELSE IF Failed(t) THEN Raise(t.err[1].cls, t.err[1].msg)
        ELSE IF chs.err # <<>> THEN Raise(chs.err[1].cls, chs.err[1].msg)
        ELSE Ok(Statute(id_date.val[1].number, id_date.val[1].date, t.val[1],
                        chs.w.chapters))

\* The locals of _parse_chapters shared by all invocations.
LocalsOf_Shared(own, foreign) == foreign

\* chapters, current_chapter, current_paragraph and current_section are
\* locals of _parse_chapters: an invocation works on its own.
LocalsOf(own, foreign) == own

Raising(s, err) == [s EXCEPT !.pc = "raised", !.error = err]

\* The branch of the loop body for the element at position s.i.
BranchOf(s, w) ==
    LET cls == s.soup.body[s.i].cls
    IN  IF cls = "Kapitel" THEN OnKapitel(w, s.soup.body, s.i)
        ELSE IF cls = "Paragraf" THEN OnParagraf(w, s.soup.body, s.i)
        ELSE IF cls = "Liste1" THEN OnListe1(w, s.soup.body, s.i)
        ELSE OnStk2(w, s.soup.body, s.i)

Iterated(s, r) ==
    IF r.err # <<>>
    THEN [Raising(s, r.err) EXCEPT !.soup.body = r.body]
    ELSE [s EXCEPT !.w = r.w, !.soup.body = r.body, !.i = @ + 1]

Titled(s, r) ==
    IF Failed(r) THEN Raising(s, r.err)
    ELSE [s EXCEPT !.title = r.val,
                   !.soup.body = SetChildren(@, select_one_Titel2(@), r.children),
                   !.i = 1,
                   !.pc = "parse_chapters"]

Headed(s, r) ==
    IF Failed(r) THEN Raising(s, r.err)
    ELSE [s EXCEPT !.id = <<r.val[1].number>>, !.date = <<r.val[1].date>>,
                   !.pc = "extract_title"]

\* One step of an invocation held as a record, given the locals of a
\* foreign invocation.
StepOfInvocation(s, foreign) ==
    CASE s.pc = "run" ->
           [s EXCEPT !.soup = s.file, !.pc = "extract_id_and_date"]
      [] s.pc = "extract_id_and_date" ->
           Headed(s, _extract_id_and_date(s.soup.h5))
      [] s.pc = "extract_title" ->
           Titled(s, _extract_title(s.soup.body))
      [] s.pc = "parse_chapters" ->
           IF s.i > Len(s.soup.body) THEN [s EXCEPT !.pc = "return_chapters"]
           ELSE IF s.soup.body[s.i].cls = "IkraftTekst"
           THEN [s EXCEPT !.pc = "return_chapters"]
           ELSE IF ~IsMarker(s.soup.body[s.i].cls) THEN [s EXCEPT !.i = @ + 1]
           ELSE Iterated(s, BranchOf(s, LocalsOf(s.w, foreign)))
      [] s.pc = "return_chapters" ->
           [s EXCEPT !.result = <<Statute(s.id[1], s.date[1], s.title[1],
                                          s.w.chapters)>>,
                     !.pc = "done"]

\* A step of the second invocation.
OtherStep ==
    /\ other.pc \notin {"none", "done", "raised"}
    /\ other' = StepOfInvocation(other, W)
    /\ UNCHANGED <<file, soup, pc, parseLocals, walkLocals, error, result,
                   loaderVars, env>>

\* The inputs of the two invocations: a whole document, one without the
\* end-of-content element, one that fails in the walk, one without title
\* and one without heading.
TwoDocuments ==
    {Document(Heading1180,
              Body(<<"Titel2", "Kapitel", "KapitelOverskrift2", "Paragraf",
                     "Liste1", "Stk2", "IkraftTekst">>)),
     Document(Heading1180,
              Body(<<"Titel2", "Kapitel", "Kapitel", "KapitelOverskrift2",
                     "Paragraf", "Stk2", "Liste1">>)),
     Document(Heading1180,
              Body(<<"Titel2", "Kapitel", "KapitelOverskrift2", "Stk2">>)),
     Document(Heading1180, Body(<<"Kapitel", "KapitelOverskrift2">>)),
     Document(None, Body(<<"Titel2", "Kapitel", "KapitelOverskrift2">>))}

InitTwo ==
    /\ file \in TwoDocuments
    /\ InitRun
    /\ \E f \in TwoDocuments \ {file} : other = Invocation(f)

NextTwo == Next \/ OtherStep

SpecTwo == InitTwo /\ [][NextTwo]_vars

(***************************************************************************)
(* C19.  Invocations are independent: whatever the interleaving of the     *)
(* steps of two parses over different inputs, each ends with the result,   *)
(* tree or error, that it gives when run alone.                            *)
(***************************************************************************)
Outcome(err, res) == [err |-> err, val |-> res]

C19_InvocationsAreIndependent ==
    /\ pc \in {"done", "raised"} => Outcome(error, result) = _parse(file)
    /\ other.pc \in {"done", "raised"} =>
          Outcome(other.error, other.result) = _parse(other.file)

\* Both parses have returned, each a tree with chapters, and the two trees
\* differ.
C19_Witness ==
    /\ pc = "done"
    /\ other.pc = "done"
    /\ result[1].chapters # <<>>
    /\ other.result[1].chapters # <<>>
    /\ result[1].chapters # other.result[1].chapters

\* The two parses are in their walks at the same time, each with a chapter.
C19_Interleaved ==
    /\ pc = "parse_chapters"
    /\ other.pc = "parse_chapters"
    /\ chapters # <<>>
    /\ other.w.chapters # <<>>

(***************************************************************************)
(* C21.  A paragraph takes its id from the id of the marker span, its guid *)
(* from the id of its element, and its reference from the text of the      *)
(* marker span with the trailing dot removed and nothing else.             *)
(***************************************************************************)
\* The text of the first span of the element at position k.
MarkerTextAt(k) ==
    SelectSeq(file.body[k].children, LAMBDA c : c.tag = "span")[1].text

WithoutTrailingDot(t) ==
    IF t # <<>> /\ t[Len(t)] = "." THEN SubSeq(t, 1, Len(t) - 1) ELSE t

WithoutDots(t) == SelectSeq(t, LAMBDA c : c # ".")

\* The paragraph at path cp was read from the paragraph start at position k:
\* it has the id of the marker and the id of the element.
ParagraphReadFrom(cp, k) ==
    /\ ClassAt(k) = "Paragraf"
    /\ ParagraphAt(chapters, cp).guid = file.body[k].id
    /\ ParagraphAt(chapters, cp).id \in SpanIdsAt(k)

C21_ReferenceWithoutTrailingDot ==
    \A cp \in ParagraphPaths(chapters) :
        \E k \in Walked :
            /\ ParagraphReadFrom(cp, k)
            /\ ParagraphAt(chapters, cp).reference
                   = WithoutTrailingDot(MarkerTextAt(k))

\* What the paragraphs do carry: the marker text without any of its dots.
C21_ReferenceWithoutDots ==
    \A cp \in ParagraphPaths(chapters) :
        \E k \in Walked :
            /\ ParagraphReadFrom(cp, k)
            /\ ParagraphAt(chapters, cp).reference = WithoutDots(MarkerTextAt(k))

(***************************************************************************)
(* C26.  In every returned tree every text entry of every paragraph has a  *)
(* text that is not empty after trimming.                                  *)
(***************************************************************************)
C26_ParagraphTextsNotEmpty ==
    pc = "done" =>
        \A cp \in ParagraphPaths(result[1].chapters) :
            \A n \in 1..Len(ParagraphAt(result[1].chapters, cp).texts) :
                Strip(ParagraphAt(result[1].chapters, cp).texts[n].text) # <<>>

\* What the returned trees do give: the text of an entry is the element's
\* own text cleaned, empty exactly when the element has no text of its own.
C26_EmptyOnlyWithoutOwnText ==
    pc = "done" =>
        \A cp \in ParagraphPaths(result[1].chapters) :
            \E k \in Walked :
                /\ ParagraphReadFrom(cp, k)
                /\ (ParagraphAt(result[1].chapters, cp).texts[1].text = <<>>)
                      <=> (\A n \in 1..Len(file.body[k].children) :
                              file.body[k].children[n].tag # "#text")

(***************************************************************************)
(* C29.  A heading that matches the pattern and whose day, month and year  *)
(* are not a calendar date makes the parse fail with the error raised for  *)
(* a heading that does not match, and gives no Statute.                    *)
(***************************************************************************)
\* The heading is written from these cases, matches the pattern, and its
\* date is not a calendar date.
InvalidDateHeading(n, d, m, y) ==
    /\ file.h5 = HeadingText(n.text, d.text, m.text, y.text)
    /\ Len(n.text) <= MaxIdDigits
    /\ ~IsCalendarDate(d.value, m.value, y.value)

C29_InvalidDateIsParseError ==
    \A n \in NumberCases, d \in DayCases, m \in MonthCases, y \in YearCases :
        (InvalidDateHeading(n, d, m, y) /\ PastHeading) =>
            ErrorIs("ParserError", "Could not extract ID and date")

\* What such a heading does give: no Statute, and the ValueError of
\* datetime.strptime.
C29_InvalidDateIsValueError ==
    \A n \in NumberCases, d \in DayCases, m \in MonthCases, y \in YearCases :
        (InvalidDateHeading(n, d, m, y) /\ PastHeading) =>
            /\ FailedAtHeading
            /\ result = <<>>
            /\ error[1].cls = "ValueError"

(***************************************************************************)
(* C30.  The three current pointers are consistent at every point of the   *)
(* walk: a current section implies a current paragraph, a current          *)
(* paragraph a current chapter; the current chapter is the last of the     *)
(* chapter list, the current paragraph the last paragraph of the current   *)
(* chapter, the current section the last section of the current paragraph. *)
(***************************************************************************)
C30_PointersConsistent ==
    /\ current_section # <<>> => current_paragraph # <<>>
    /\ current_paragraph # <<>> => current_chapter # <<>>
    /\ current_chapter # <<>> =>
          (chapters # <<>> /\ current_chapter = <<Len(chapters)>>)
    /\ current_paragraph # <<>> =>
          /\ chapters[current_chapter[1]].paragraphs # <<>>
          /\ current_paragraph =
                 <<current_chapter[1], Len(chapters[current_chapter[1]].paragraphs)>>
    /\ current_section # <<>> =>
          /\ ParagraphAt(chapters, current_paragraph).sections # <<>>
          /\ current_section =
                 current_paragraph
                 \o <<Len(ParagraphAt(chapters, current_paragraph).sections)>>

\* The three pointers are set, on the second section of the second
\* paragraph of a chapter.
C30_Witness ==
    /\ current_section # <<>>
    /\ current_section[2] >= 2
    /\ current_section[3] >= 2

(***************************************************************************)
(* C24.  A paragraph start clears the current section: a list item whose   *)
(* latest start before it is a paragraph start is in the texts of that     *)
(* paragraph and of no section, and a subsection start is in the sections  *)
(* of the latest paragraph start before it.                                *)
(***************************************************************************)
\* The latest element before position k that carries one of the classes
\* (0: none).
LatestBefore(k, classes) ==
    LET before == {j \in 1..(k - 1) : ClassAt(j) \in classes}
    IN  IF before = {} THEN 0 ELSE CHOOSE j \in before : \A x \in before : x <= j

\* The paths of the paragraphs read from the element at position k.
ParagraphsOf(k) ==
    {cp \in ParagraphPaths(chapters) :
        ParagraphAt(chapters, cp).guid = file.body[k].id}

C24_ParagraphClearsSection ==
    /\ (i >= 2 /\ ClassAt(i - 1) = "Paragraf") =>
          /\ current_section = <<>>
          /\ current_paragraph \in ParagraphsOf(i - 1)
    /\ \A k \in Walked :
          (ClassAt(k) = "Liste1"
              /\ ClassAt(LatestBefore(k, Starts)) = "Paragraf") =>
              \E g \in SpanIdsAt(k) :
                  /\ HoldersOf(chapters, g) # {}
                  /\ HoldersOf(chapters, g)
                         = ParagraphsOf(LatestBefore(k, Starts))
    /\ \A k \in Walked :
          ClassAt(k) = "Stk2" =>
              \E cp \in ParagraphsOf(LatestBefore(k, {"Paragraf"})) :
                  \E q \in 1..Len(ParagraphAt(chapters, cp).sections) :
                      ParagraphAt(chapters, cp).sections[q].guid \in SpanIdsAt(k)

\* A paragraph with a section, then a second paragraph with a list item in
\* its own texts.
C24_Witness ==
    \E cp \in ParagraphPaths(chapters) :
        /\ cp[2] >= 2
        /\ Len(ParagraphAt(chapters, cp).texts) >= 2
        /\ ParagraphAt(chapters, cp).sections = <<>>
        /\ ParagraphAt(chapters, <<cp[1], cp[2] - 1>>).sections # <<>>

(***************************************************************************)
(* C25.  An element that carries none of the five markers is ignored: the  *)
(* step over it leaves the chapter list and the three current pointers as  *)
(* they were, raises nothing, and goes on to the next element.             *)
(***************************************************************************)
AtUnrecognised ==
    /\ pc = "parse_chapters"
    /\ i <= Len(soup.body)
    /\ soup.body[i].cls
          \notin {"Kapitel", "Paragraf", "Liste1", "Stk2", "IkraftTekst"}

C25_UnrecognisedIsIgnored ==
    [][AtUnrecognised =>
          /\ chapters' = chapters
          /\ current_chapter' = current_chapter
          /\ current_paragraph' = current_paragraph
          /\ current_section' = current_section
          /\ pc' = "parse_chapters"
          /\ error' = error
          /\ result' = result
          /\ i' = i + 1]_vars

\* The walk has gone over a chapter-title element with a section open.
C25_Witness ==
    /\ pc = "parse_chapters"
    /\ i >= 2
    /\ ClassAt(i - 1) = "KapitelOverskrift2"
    /\ current_section # <<>>
    /\ error = <<>>

(***************************************************************************)
(* Duplicate ids: the documents of the walk with the same marker id on     *)
(* every paragraph start.                                                  *)
(***************************************************************************)
DuplicateDocuments ==
    {[d EXCEPT !.body =
         [k \in 1..Len(@) |->
             IF @[k].cls = "Paragraf"
             THEN ElemWith("Paragraf", k, "span_id_same")
             ELSE @[k]]] :
        d \in WalkDocuments}

InitDuplicate == file \in DuplicateDocuments /\ InitParser

SpecDuplicate == InitDuplicate /\ [][Next]_vars

(***************************************************************************)
(* C23.  Paragraph ids are not required to be unique: with the same marker *)
(* id on every paragraph start the parse fails only for the structure of   *)
(* the document, and every paragraph start walked gives one paragraph,     *)
(* under the chapter of the latest chapter start before it and in source   *)
(* order.                                                                  *)
(***************************************************************************)
StructureErrors ==
    {"Found paragraph outside chapter", "Found list outside paragraph",
     "Found section outside paragraph",
     "Could not find <p> element with class 'KapitelOverskrift2'"}

C23_DuplicateIdsAreKept ==
    /\ pc = "raised" =>
          (error[1].cls = "ParserError" /\ error[1].msg \in StructureErrors)
    /\ \A k \in Walked :
          ClassAt(k) = "Paragraf" =>
              /\ Cardinality(ParagraphsOf(k)) = 1
              /\ \A cp \in ParagraphsOf(k) :
                    /\ ParagraphAt(chapters, cp).id = <<"P", "a", "r", "1">>
                    /\ chapters[cp[1]].guid
                           = file.body[LatestBefore(k, {"Kapitel"})].id
    /\ \A c \in 1..Len(chapters) :
          Increasing(SourceOrder(chapters[c].paragraphs))
    /\ pc = "done" => result[1].chapters = chapters

\* A returned tree of two chapters, each with a paragraph of the same id.
C23_Witness ==
    /\ pc = "done"
    /\ Len(result[1].chapters) = 2
    /\ result[1].chapters[1].paragraphs # <<>>
    /\ result[1].chapters[2].paragraphs # <<>>
    /\ result[1].chapters[1].paragraphs[1].id
           = result[1].chapters[2].paragraphs[1].id

(***************************************************************************)
(* The run with a fair walk: an iteration of the loop that can be taken is *)
(* taken.  The walk is a for loop of one thread that waits for nothing.    *)
(***************************************************************************)
MaxLive == 3

\* A title element, up to MaxLive drawn elements, and possibly a closing
\* chapter-title element.
LiveDocuments ==
    {Document(Heading1180,
              Body(<<"Titel2">> \o free
                   \o (IF closing THEN <<"KapitelOverskrift2">> ELSE <<>>))) :
        free \in UNION {[1..n -> FreeClasses] : n \in 0..MaxLive},
        closing \in BOOLEAN}

InitLive == file \in LiveDocuments /\ InitParser

\* One iteration of the for loop of _parse_chapters, or its end.
WalkStep ==
    \/ StepKapitel
    \/ StepParagraf
    \/ StepListe1
    \/ StepStk2
    \/ StepIkraftTekst
    \/ StepOther
    \/ EndOfElements

SpecLive == InitLive /\ [][Next]_vars /\ WF_vars(WalkStep)

\* One step of the loop: the next element, or the end of the walk.
LinearStep ==
    pc = "parse_chapters" =>
        \/ pc' = "parse_chapters" /\ i' = i + 1 /\ i <= Len(soup.body)
        \/ /\ pc' = "return_chapters" /\ i' = i /\ error' = <<>>
           /\ \/ i > Len(soup.body)
              \/ /\ i <= Len(soup.body)
                 /\ soup.body[i].cls = "IkraftTekst"
                 /\ \A k \in 1..(i - 1) : soup.body[k].cls # "IkraftTekst"
        \/ /\ pc' = "raised" /\ i' = i /\ error' # <<>>
           /\ i <= Len(soup.body)

(***************************************************************************)
(* C27.  The walk is one linear pass that terminates: a step of the walk   *)
(* moves to the next element or ends the walk, the walk ends because the   *)
(* elements ran out, at the first end-of-content marker, or with an error, *)
(* and every walk that started ends.                                       *)
(***************************************************************************)
C27_LinearPassTerminates ==
    /\ [][LinearStep]_vars
    /\ [][pc # "parse_chapters" => i' = i \/ (i = 0 /\ i' = 1)]_vars
    /\ (pc = "parse_chapters") ~> (pc \in {"return_chapters", "raised"})

\* A walk ended by an end-of-content marker that is not the last element.
C27_Witness ==
    /\ pc = "done"
    /\ i < Len(soup.body)
    /\ soup.body[i].cls = "IkraftTekst"
    /\ i > 2

(***************************************************************************)
(* The construction of the parser and the command-line tools               *)
(* (tools/parse_statute.py, tools/scrape_statute.py).  An output file is   *)
(* absent, holds what it held before the tool ran ("old"), or what the     *)
(* tool wrote.                                                             *)
(***************************************************************************)
FileNotFoundError(msg) == Raise("FileNotFoundError", msg)

\* click.BadParameter
BadParameter(msg) == Raise("BadParameter", msg)

\* __init__ without the test that the file exists.
__init___NoCheck(exists) == Ok("self")

\* RetsinformationStatuteParser.__init__
__init__(exists) ==
    IF ~exists THEN FileNotFoundError("File file_path does not exist")
    ELSE Ok("self")

\* The test of the output path that lets every call through.
OutputPathCheck_IgnoresExisting(force, exists) == Ok("output_path")

\* if force is False and output_path.exists(): raise click.BadParameter(...)
OutputPathCheck(force, exists) ==
    IF force = FALSE /\ exists
    THEN BadParameter("File output_path already exists. Use --force to overwrite it.")
    ELSE Ok("output_path")

\* parser = RetsinformationStatuteParser(file_path=...)
Construct ==
    /\ pc = "init"
    /\ LET r == __init__(env.input_exists)
       IN  IF Failed(r)
           THEN Propagate(r.err)
           ELSE pc' = "run" /\ UNCHANGED <<error, result>>
    /\ UNCHANGED <<loaderVars, other, env, file, soup, parseLocals, walkLocals>>

\* An exception leaves main.
ToolRaise(err) == env' = [env EXCEPT !.pc = "raised", !.error = err]

\* parse_statute.main: if not input_path_.exists(): raise click.BadParameter
ParseCheckInput ==
    /\ env.tool = "parse_statute" /\ env.pc = "main"
    /\ IF ~env.input_exists
       THEN ToolRaise(BadParameter("File input_path does not exist").err)
       ELSE env' = [env EXCEPT !.pc = "check_output"]
    /\ UNCHANGED <<loaderVars, other, file, soup, pc, parseLocals, walkLocals,
                   error, result>>

\* ParseCheckOutput with the output file opened for writing before the
\* parse: the file is created or emptied.
ParseCheckOutput_OpensFirst ==
    /\ env.tool = "parse_statute" /\ env.pc = "check_output"
    /\ LET r == OutputPathCheck(env.force, env.output # "absent")
       IN  IF Failed(r)
           THEN ToolRaise(r.err) /\ UNCHANGED pc
           ELSE /\ env' = [env EXCEPT !.pc = "parse", !.output = "empty"]
                /\ pc' = "init"
    /\ UNCHANGED <<loaderVars, other, file, soup, parseLocals, walkLocals,
                   error, result>>

\* parse_statute.main: the test of the output path, then the parser is
\* constructed.
ParseCheckOutput ==
    /\ env.tool = "parse_statute" /\ env.pc = "check_output"
    /\ LET r == OutputPathCheck(env.force, env.output # "absent")
       IN  IF Failed(r)
           THEN ToolRaise(r.err) /\ UNCHANGED pc
           ELSE env' = [env EXCEPT !.pc = "parse"] /\ pc' = "init"
    /\ UNCHANGED <<loaderVars, other, file, soup, parseLocals, walkLocals,
                   error, result>>

\* parse_statute.main: an exception of the parser leaves main.
ParseRaised ==
    /\ env.tool = "parse_statute" /\ env.pc = "parse"
    /\ pc = "raised"
    /\ ToolRaise(error)
    /\ UNCHANGED <<loaderVars, other, file, soup, pc, parseLocals, walkLocals,
                   error, result>>

\* parse_statute.main: with open(output_path_, "w") as f: f.write(...)
ParseWrite ==
    /\ env.tool = "parse_statute" /\ env.pc = "parse"
    /\ pc = "done"
    /\ env' = [env EXCEPT !.output = "statute", !.pc = "done"]
    /\ UNCHANGED <<loaderVars, other, file, soup, pc, parseLocals, walkLocals,
                   error, result>>

\* scrape_statute.main: the test of the output path, then the runner.
ScrapeCheckOutput ==
    /\ env.tool = "scrape_statute" /\ env.pc = "main"
    /\ LET r == OutputPathCheck(env.force, env.output # "absent")
       IN  IF Failed(r)
           THEN ToolRaise(r.err)
           ELSE env' = [env EXCEPT !.pc = "fetch"]
    /\ UNCHANGED <<loaderVars, other, file, soup, pc, parseLocals, walkLocals,
                   error, result>>

\* scrape_statute.runner: content = await get_page_content(...), which
\* returns the page or raises.
ScrapeFetch ==
    /\ env.tool = "scrape_statute" /\ env.pc = "fetch"
    /\ \E fetched \in BOOLEAN :
          IF fetched
          THEN env' = [env EXCEPT !.pc = "write"]
          ELSE ToolRaise(Raise("Exception", "page not fetched").err)
    /\ UNCHANGED <<loaderVars, other, file, soup, pc, parseLocals, walkLocals,
                   error, result>>

\* scrape_statute.runner: with open(output_path, "w") as f: f.write(content)
ScrapeWrite ==
    /\ env.tool = "scrape_statute" /\ env.pc = "write"
    /\ env' = [env EXCEPT !.output = "page", !.pc = "done"]
    /\ UNCHANGED <<loaderVars, other, file, soup, pc, parseLocals, walkLocals,
                   error, result>>

\* A caller of the library constructs the parser, or a tool is started: on
\* an input file that exists or not, an output file that exists or not,
\* with or without --force.
InitTool ==
    /\ \E name \in {"none", "parse_statute", "scrape_statute"},
          exists \in BOOLEAN, output \in {"absent", "old"}, force \in BOOLEAN :
          /\ env = IF name = "none"
                   THEN [NoTool EXCEPT !.input_exists = exists]
                   ELSE Tool(name, exists, output, force)
          /\ file \in IF exists /\ name # "scrape_statute"
                      THEN TwoDocuments ELSE {NoDocument}
          /\ pc = IF name = "none" THEN "init" ELSE "none"
    /\ soup = NoDocument
    /\ id = <<>> /\ date = <<>> /\ title = <<>>
    /\ chapters = WalkStart.chapters
    /\ current_chapter = WalkStart.current_chapter
    /\ current_paragraph = WalkStart.current_paragraph
    /\ current_section = WalkStart.current_section
    /\ i = 0
    /\ error = <<>>
    /\ result = <<>>
    /\ json_data = NoJson
    /\ loaded = <<>>
    /\ other = NoInvocation

NextTool ==
    \/ Next
    \/ Construct
    \/ ParseCheckInput
    \/ ParseCheckOutput
    \/ ParseRaised
    \/ ParseWrite
    \/ ScrapeCheckOutput
    \/ ScrapeFetch
    \/ ScrapeWrite

SpecTool == InitTool /\ [][NextTool]_vars

\* Nothing has been read or built by the parser.
NothingParsed ==
    /\ soup = NoDocument
    /\ id = <<>> /\ date = <<>> /\ title = <<>>
    /\ chapters = <<>>
    /\ i = 0
    /\ result = <<>>

(***************************************************************************)
(* C22.  Constructing the parser for a file that does not exist raises     *)
(* FileNotFoundError: no parser is run, nothing is read and no tree is     *)
(* built; parse_statute stops at its own test of the input path before it  *)
(* constructs the parser.                                                  *)
(***************************************************************************)
C22_MissingInputIsNotFound ==
    ~env.input_exists =>
        /\ pc \in {"none", "init", "raised"}
        /\ pc = "raised" =>
              ErrorIs("FileNotFoundError", "File file_path does not exist")
        /\ NothingParsed
        /\ env.tool = "parse_statute" =>
              /\ pc = "none"
              /\ env.pc \in {"main", "raised"}
              /\ env.pc = "raised" =>
                    env.error = BadParameter("File input_path does not exist").err

\* The constructor has raised for a file that does not exist.
C22_Witness ==
    /\ ~env.input_exists
    /\ env.tool = "none"
    /\ ErrorIs("FileNotFoundError", "File file_path does not exist")

(***************************************************************************)
(* C28.  When the output file exists and --force is not given, a tool      *)
(* leaves the file as it was: it raises BadParameter before the parser is  *)
(* constructed (parse_statute) or the page is fetched (scrape_statute).    *)
(***************************************************************************)
C28_NoOverwriteWithoutForce ==
    (env.existed /\ ~env.force) =>
        /\ env.output = "old"
        /\ pc = "none" /\ NothingParsed
        /\ env.pc \in {"main", "check_output", "raised"}
        /\ env.pc = "raised" => env.error[1].cls = "BadParameter"

\* parse_statute has stopped at an output file that exists.
C28_Witness ==
    /\ env.tool = "parse_statute"
    /\ env.input_exists /\ env.existed /\ ~env.force
    /\ env.pc = "raised"
    /\ env.error = OutputPathCheck(FALSE, TRUE).err
    /\ env.output = "old"

\* scrape_statute has stopped at an output file that exists.
C28_ScrapeWitness ==
    /\ env.tool = "scrape_statute"
    /\ env.existed /\ ~env.force
    /\ env.pc = "raised"
    /\ env.output = "old"

(***************************************************************************)
(* Counting the nodes of the returned tree against the elements before the *)
(* first end-of-content element.                                           *)
(***************************************************************************)
BeforeEnd == {k \in Positions : \A j \in 1..k : ClassAt(j) # "IkraftTekst"}

ElementsOf(cls) == {k \in BeforeEnd : ClassAt(k) = cls}

\* The list items held by paragraphs and by sections: a path and an index.
ParagraphItems(chs) ==
    UNION {{<<cp, n>> : n \in ListTexts(ParagraphAt(chs, cp).texts)} :
           cp \in ParagraphPaths(chs)}

SectionItems(chs) ==
    UNION {{<<cps, n>> : n \in ListTexts(SectionAt(chs, cps).texts)} :
           cps \in SectionPaths(chs)}

\* The nodes of the tree that carry the id of the element at position k.
ChaptersFrom(chs, k) == {c \in 1..Len(chs) : chs[c].guid = file.body[k].id}

ParagraphsFrom(chs, k) ==
    {cp \in ParagraphPaths(chs) : ParagraphAt(chs, cp).guid = file.body[k].id}

SectionsFrom(chs, k) ==
    {cps \in SectionPaths(chs) : SectionAt(chs, cps).guid \in SpanIdsAt(k)}

ParagraphItemsFrom(chs, k) ==
    {x \in ParagraphItems(chs) :
        ParagraphAt(chs, x[1]).texts[x[2]].guid \in SpanIdsAt(k)}

SectionItemsFrom(chs, k) ==
    {x \in SectionItems(chs) :
        SectionAt(chs, x[1]).texts[x[2]].guid \in SpanIdsAt(k)}

(***************************************************************************)
(* C31.  In a returned tree every chapter start, paragraph start,          *)
(* subsection start and list item before the first end-of-content element  *)
(* has exactly one node, and the tree has no other chapter, paragraph,     *)
(* section or list item: the counts are equal, a chapter without           *)
(* paragraphs included.                                                    *)
(***************************************************************************)
C31_OneNodePerElement ==
    pc = "done" =>
        LET chs == result[1].chapters
        IN  /\ Len(chs) = Cardinality(ElementsOf("Kapitel"))
            /\ Cardinality(ParagraphPaths(chs))
                  = Cardinality(ElementsOf("Paragraf"))
            /\ Cardinality(SectionPaths(chs)) = Cardinality(ElementsOf("Stk2"))
            /\ Cardinality(ParagraphItems(chs)) + Cardinality(SectionItems(chs))
                  = Cardinality(ElementsOf("Liste1"))
            /\ \A k \in ElementsOf("Kapitel") :
                  Cardinality(ChaptersFrom(chs, k)) = 1
            /\ \A k \in ElementsOf("Paragraf") :
                  Cardinality(ParagraphsFrom(chs, k)) = 1
            /\ \A k \in ElementsOf("Stk2") :
                  Cardinality(SectionsFrom(chs, k)) = 1
            /\ \A k \in ElementsOf("Liste1") :
                  Cardinality(ParagraphItemsFrom(chs, k))
                      + Cardinality(SectionItemsFrom(chs, k)) = 1

\* A returned tree with a chapter without paragraphs, then a chapter with a
\* paragraph, a section and a list item.
C31_Witness ==
    /\ pc = "done"
    /\ Len(result[1].chapters) = 2
    /\ result[1].chapters[1].paragraphs = <<>>
    /\ SectionPaths(result[1].chapters) # {}
    /\ SectionItems(result[1].chapters) # {}

(***************************************************************************)
(* The steps of parse_statute.main.                                        *)
(***************************************************************************)
\* The output file as it was when the tool was started.
OutputAtStart == IF env.existed THEN "old" ELSE "absent"

\* Where main is, against what it has tested and what the parser has done.
MainInOrder ==
    /\ env.pc = "check_output" => env.input_exists
    /\ env.pc \in {"parse", "done"} =>
          (env.input_exists /\ (env.force \/ ~env.existed))
    /\ pc # "none" => env.pc \in {"parse", "done", "raised"}
    /\ env.pc = "done" => (pc = "done" /\ env.output = "statute")
    /\ env.pc # "done" => env.output = OutputAtStart

\* main moves from the input test to the output test, to the parse, to the
\* write, or is left by an exception.
MainMoves ==
    env.pc' # env.pc =>
        \/ env.pc = "main" /\ env.pc' \in {"check_output", "raised"}
        \/ env.pc = "check_output" /\ env.pc' \in {"parse", "raised"}
        \/ env.pc = "parse" /\ env.pc' = "raised" /\ pc = "raised"
        \/ env.pc = "parse" /\ env.pc' = "done" /\ pc = "done"

(***************************************************************************)
(* C32.  parse_statute writes the output file only after the parser has    *)
(* returned: when the parser raises, an absent output file stays absent    *)
(* and one that exists keeps its content, and main goes through the input  *)
(* test, the output test, the parse and the write in this order.           *)
(***************************************************************************)
C32_WriteOnlyAfterParse ==
    /\ [](env.tool = "parse_statute" => MainInOrder)
    /\ [][env.tool = "parse_statute" => MainMoves]_vars

\* With --force the parser has raised and the output file holds what it
\* held.
C32_Witness ==
    /\ env.tool = "parse_statute"
    /\ env.force /\ env.existed
    /\ pc = "raised" /\ error[1].cls = "ParserError"
    /\ env.pc = "raised" /\ env.error = error
    /\ env.output = "old"

\* The parser has raised and no output file has been created.
C32_AbsentWitness ==
    /\ env.tool = "parse_statute"
    /\ ~env.existed
    /\ pc = "raised"
    /\ env.pc = "raised"
    /\ env.output = "absent"

====
